---- MODULE Spec2Model ----
(***************************************************************************)
(* A model of ezanchor: the Equipment object (src/ezanchor/equipment.py),  *)
(* its Anchor objects (src/ezanchor/anchor.py) and the plotter's consumers *)
(* (src/ezanchor/plotter.py).                                              *)
(*                                                                         *)
(* Numbers.  The program computes in binary floating point.  The model     *)
(* computes in exact rational arithmetic, <<n, d>> standing for n/d, and   *)
(* keeps the three non-finite values a float can take: <<0,0>> is nan,     *)
(* <<1,0>> is +inf and <<-1,0>> is -inf.  The sign of zero is not          *)
(* modelled.  Where the program divides Python numbers a zero divisor      *)
(* raises ZeroDivisionError; where it divides numpy scalars a zero divisor *)
(* yields nan or inf: each division below says which it is.                *)
(*                                                                         *)
(* Rounding.  A value of the model is the real number the program's float  *)
(* approximates, so two values that are equal here are equal in the        *)
(* program up to rounding.  Rounding is modelled where it decides a        *)
(* comparison: math.sin and math.cos of 90, 180, 270 and 360 degrees are   *)
(* not exactly 0, 1 and -1 (math.sin(2*math.pi) is -2.4e-16), so of two    *)
(* anchors whose values are equal in exact arithmetic either may come out  *)
(* larger, and a sum that is zero in exact arithmetic may come out with    *)
(* either sign.  The variable rounding says, for the running solve,        *)
(* whether such comparisons come out as in exact arithmetic (FALSE) or the *)
(* other way (TRUE).                                                       *)
(*                                                                         *)
(* Angles.  Sines and cosines are rational only at multiples of 90         *)
(* degrees, so the sweep is sampled at quarter turns (DEG_INC), and an     *)
(* angle is carried as its <<cosine, sine>> pair.  math.sqrt is monotone   *)
(* on the non-negative numbers, so a magnitude is carried as its square.   *)
(***************************************************************************)
EXTENDS Integers, Sequences, FiniteSets, TLC

VARIABLES
    self,       \* the Equipment object: every attribute of Equipment.__init__
    pc,         \* position of the running call ("idle" between calls)
    on_stilt,   \* solve's parameter on_stilt, for the running solve
    deg_i,      \* solve's loop position: index into degrees (0: no sweep is running)
    call,       \* the last call made: its name, arguments and anchor count before it
    raised,     \* the exception the last call ended with ("none": it is running or returned)
    figures,    \* whether the last call opened a matplotlib figure
    n_calls,    \* number of solve calls made so far (bounded by MaxSolves)
    rounding    \* whether rounding decides the comparisons of the running solve (see Rounding)

vars == <<self, pc, on_stilt, deg_i, call, raised, figures, n_calls, rounding>>

-----------------------------------------------------------------------------
(* Bounds of the model *)

MaxAnchors == 2        \* add_anchor and add_anchor_group are followed up to this anchor count
MaxSolves == 2         \* solve is followed up to this many calls
MaxGridCount == 3      \* largest nx and ny of the grids drawn for add_anchor_group
MaxFootprintCalls == 2 \* add_footprint calls followed when the builder is run on its own

-----------------------------------------------------------------------------
(* Numbers *)

Abs(n) == IF n < 0 THEN -n ELSE n

RECURSIVE GCD(_, _)
GCD(a, b) == IF b = 0 THEN a ELSE GCD(b, a % b)

\* the float n/d for integers n and d, d # 0, in lowest terms
Q(n, d) ==
    LET g == GCD(Abs(n), Abs(d))
        s == IF d < 0 THEN -1 ELSE 1
    IN  <<s * (n \div g), s * (d \div g)>>

I(n) == <<n, 1>>
NaN == <<0, 0>>
PosInf == <<1, 0>>
NegInf == <<-1, 0>>
Zero == <<0, 1>>

IsNaN(a) == a = NaN
IsFinite(a) == a[2] # 0
Sign(a) == IF a[1] > 0 THEN 1 ELSE IF a[1] < 0 THEN -1 ELSE 0

Neg(a) == <<-a[1], a[2]>>

Add(a, b) ==
    IF IsNaN(a) \/ IsNaN(b) THEN NaN
    ELSE IF ~IsFinite(a) THEN (IF ~IsFinite(b) /\ b # a THEN NaN ELSE a)
    ELSE IF ~IsFinite(b) THEN b
    ELSE LET g == GCD(a[2], b[2])
         IN  Q(a[1] * (b[2] \div g) + b[1] * (a[2] \div g), (a[2] \div g) * b[2])

Sub(a, b) == Add(a, Neg(b))

Mul(a, b) ==
    IF IsNaN(a) \/ IsNaN(b) THEN NaN
    ELSE IF ~IsFinite(a) \/ ~IsFinite(b)
         THEN (IF Sign(a) * Sign(b) = 0 THEN NaN ELSE <<Sign(a) * Sign(b), 0>>)
    ELSE LET g1 == GCD(Abs(a[1]), b[2])
             g2 == GCD(Abs(b[1]), a[2])
         IN  Q((a[1] \div g1) * (b[1] \div g2), (a[2] \div g2) * (b[2] \div g1))

\* a / b as numpy divides (and as Python divides when b # 0): no exception,
\* x/0 is nan for x = 0 and an infinity otherwise
Div(a, b) ==
    IF IsNaN(a) \/ IsNaN(b) THEN NaN
    ELSE IF ~IsFinite(b) THEN (IF ~IsFinite(a) THEN NaN ELSE Zero)
    ELSE IF ~IsFinite(a) THEN (IF Sign(b) < 0 THEN Neg(a) ELSE a)
    ELSE IF b[1] = 0 THEN <<Sign(a), 0>>
    ELSE Mul(a, Q(b[2], b[1]))

\* a < b; every comparison with nan is false
Lt(a, b) ==
    IF IsNaN(a) \/ IsNaN(b) THEN FALSE
    ELSE IF IsFinite(a) /\ IsFinite(b)
         THEN LET g == GCD(a[2], b[2]) IN a[1] * (b[2] \div g) < b[1] * (a[2] \div g)
    ELSE IF a = b THEN FALSE
    ELSE a = NegInf \/ b = PosInf

Gt(a, b) == Lt(b, a)
Le(a, b) == Lt(a, b) \/ (a = b /\ ~IsNaN(a))

\* Python's max(a, b): b when b > a, else a
PyMax(a, b) == IF Gt(b, a) THEN b ELSE a

AbsQ(a) == IF a[1] < 0 THEN Neg(a) ELSE a
Sq(a) == Mul(a, a)

RECURSIVE SumSeq(_)
\* Python's sum(list): left to right from 0
SumSeq(s) == IF s = <<>> THEN Zero ELSE Add(SumSeq(SubSeq(s, 1, Len(s) - 1)), s[Len(s)])

-----------------------------------------------------------------------------
(* Python values *)

None == <<>>                       \* None, for an attribute that holds a list, a number or a tag
EmptyDict == <<>>                  \* {}
Put(d, k, v) == (k :> v) @@ d      \* d[k] = v
Keys(d) == DOMAIN d                \* d.keys()
Some(v) == <<v>>                   \* a tag stored where None may be stored

-----------------------------------------------------------------------------
(* Sweep orientations and their trigonometry *)

\* solve: DEG_INC.  The source sweeps every degree (DEG_INC = 1); the model samples
\* the same sweep, 0 to 360 inclusive, at the orientations whose sine and cosine
\* are rational.
DEG_INC == 90

\* the sweep without its last orientation: range(0, 360, DEG_INC)
degrees_without_endpoint == [i \in 1..(360 \div DEG_INC) |-> (i - 1) * DEG_INC]

\* np.linspace(start, stop, num) for num >= 2 values that are whole numbers:
\* start + i * (stop - start) / (num - 1) for i = 0 .. num-1
linspace(start, stop, num) ==
    [i \in 1..num |-> start + ((i - 1) * (stop - start)) \div (num - 1)]

\* solve: degrees = list(np.linspace(0, 360, 360//DEG_INC + 1))
degrees == linspace(0, 360, (360 \div DEG_INC) + 1)

\* math.cos(deg * pi / 180) and math.sin(deg * pi / 180) at a multiple of 90 degrees
CosDeg(deg) == LET k == (deg \div 90) % 4 IN I(<<1, 0, -1, 0>>[k + 1])
SinDeg(deg) == LET k == (deg \div 90) % 4 IN I(<<0, 1, 0, -1>>[k + 1])
Rot(deg) == <<CosDeg(deg), SinDeg(deg)>>
NoRot == <<I(1), I(0)>>

\* transform_rotate(coord, deg), the angle given as <<cos, sin>>
transform_rotate(coord, rot) ==
    <<Sub(Mul(rot[1], coord[1]), Mul(rot[2], coord[2])),
      Add(Mul(rot[2], coord[1]), Mul(rot[1], coord[2]))>>

-----------------------------------------------------------------------------
(* Construction *)

\* Anchor.__init__(tag, x, y)
Anchor(tag, x, y) ==
    [tag |-> tag, xo |-> x, yo |-> y,
     x_360 |-> EmptyDict, y_360 |-> EmptyDict,
     vd_360 |-> EmptyDict, vt_360 |-> EmptyDict,
     Vtotal_360 |-> EmptyDict, Ttotal_360 |-> EmptyDict,
     d_360 |-> EmptyDict,
     cx_360 |-> EmptyDict, cy_360 |-> EmptyDict,
     Tx_360 |-> EmptyDict, Ty_360 |-> EmptyDict, Ta_360 |-> EmptyDict]

\* Equipment.__init__(...); cfg.CG is None for CGx == "auto" or CGy == "auto"
Equipment(cfg) ==
    [name |-> cfg.name, Sds |-> cfg.Sds, Ip |-> cfg.Ip, h |-> cfg.h, z |-> cfg.z,
     ap |-> cfg.ap, Rp |-> cfg.Rp, omega |-> cfg.omega, weight |-> cfg.weight,
     CGz |-> cfg.CGz, load_combo |-> cfg.load_combo, use_omega |-> cfg.use_omega,
     anchor_cog |-> None, equip_cog |-> cfg.CG,
     N_anchor |-> 0, anchor_list |-> <<>>, bounding_points |-> <<>>,
     weight_factor |-> None, Fpgovern |-> None, Emh |-> None,
     is_solved |-> FALSE, on_stilt |-> FALSE, folder_created |-> FALSE,
     output_dir |-> None, orientations |-> None,
     Ix |-> EmptyDict, Iy |-> EmptyDict, Iz |-> EmptyDict, Ixy |-> EmptyDict,
     equip_cog_dict |-> EmptyDict, anchor_cog_dict |-> EmptyDict,
     bounding_points_dict |-> EmptyDict,
     Fh |-> EmptyDict, Fv |-> EmptyDict, ecc_x |-> EmptyDict, ecc_y |-> EmptyDict,
     torsion |-> EmptyDict, T_max |-> EmptyDict, V_max |-> EmptyDict,
     T_crit_anchor |-> EmptyDict, V_crit_anchor |-> EmptyDict,
     y_max |-> EmptyDict, M_ot |-> EmptyDict, M_r |-> EmptyDict,
     M_net |-> EmptyDict, d_max |-> EmptyDict,
     theta |-> None,
     Fh_x |-> EmptyDict, Fh_y |-> EmptyDict, Mw_x |-> EmptyDict, Mw_y |-> EmptyDict,
     Mot_x |-> EmptyDict, Mot_y |-> EmptyDict, Mtotal_x |-> EmptyDict,
     Mtotal_y |-> EmptyDict, T_min |-> EmptyDict, C_crit_anchor |-> EmptyDict]

-----------------------------------------------------------------------------
(* Layout builder *)

\* add_footprint that lists the corners clockwise: (xo, yo), (xo, yo+h),
\* (xo+b, yo+h), (xo+b, yo)
add_footprint_clockwise(eq, xo, yo, b, h) ==
    [eq EXCEPT !.bounding_points =
        @ \o << <<xo, yo>>, <<xo, Add(yo, h)>>, <<Add(xo, b), Add(yo, h)>>, <<Add(xo, b), yo>> >>]

\* Equipment.add_footprint(xo, yo, b, h)
add_footprint(eq, xo, yo, b, h) ==
    [eq EXCEPT !.bounding_points =
        @ \o << <<xo, yo>>, <<Add(xo, b), yo>>, <<Add(xo, b), Add(yo, h)>>, <<xo, Add(yo, h)>> >>]

\* add_anchor that counts tags from 1
add_anchor_tag_from_one(eq, x, y) ==
    [eq EXCEPT !.anchor_list = Append(@, Anchor(eq.N_anchor + 1, x, y)),
               !.N_anchor = @ + 1]

\* Equipment.add_anchor(x, y)
add_anchor(eq, x, y) ==
    [eq EXCEPT !.anchor_list = Append(@, Anchor(eq.N_anchor, x, y)),
               !.N_anchor = @ + 1]

RECURSIVE GridCoords(_, _, _)
\* xcoord = [x0]; for i in range(k): xcoord.append(xcoord[-1] + s)
GridCoords(x0, s, k) ==
    IF k <= 0 THEN <<x0>>
    ELSE LET c == GridCoords(x0, s, k - 1) IN Append(c, Add(c[Len(c)], s))

\* list(itertools.product(xcoord, ycoord))
Product(xcoord, ycoord) ==
    [k \in 1..(Len(xcoord) * Len(ycoord)) |->
        <<xcoord[((k - 1) \div Len(ycoord)) + 1], ycoord[((k - 1) % Len(ycoord)) + 1]>>]

\* anchor_coord whose perimeter filter keeps the corners only
anchor_coord_corners(x0, y0, b, h, nx, ny, mode) ==
    LET sx == IF nx = 1 THEN Zero ELSE Div(b, I(nx - 1))
        sy == IF ny = 1 THEN Zero ELSE Div(h, I(ny - 1))
        xcoord == IF sx # Zero THEN GridCoords(x0, sx, nx - 1) ELSE <<x0>>
        ycoord == IF sy # Zero THEN GridCoords(y0, sy, ny - 1) ELSE <<y0>>
        full == Product(xcoord, ycoord)
        OnCorner(e) == (e[1] = x0 \/ e[1] = xcoord[Len(xcoord)])
                       /\ (e[2] = y0 \/ e[2] = ycoord[Len(ycoord)])
    IN  IF mode = "p" THEN SelectSeq(full, OnCorner) ELSE full

\* the list anchor_coord that add_anchor_group builds before it adds the anchors
\* (b / (nx-1) divides Python numbers; nx == 1 is the guarded zero divisor)
anchor_coord(x0, y0, b, h, nx, ny, mode) ==
    LET sx == IF nx = 1 THEN Zero ELSE Div(b, I(nx - 1))
        sy == IF ny = 1 THEN Zero ELSE Div(h, I(ny - 1))
        xcoord == IF sx # Zero THEN GridCoords(x0, sx, nx - 1) ELSE <<x0>>
        ycoord == IF sy # Zero THEN GridCoords(y0, sy, ny - 1) ELSE <<y0>>
        full == Product(xcoord, ycoord)
        x_edge0 == x0
        x_edge1 == xcoord[Len(xcoord)]
        y_edge0 == y0
        y_edge1 == ycoord[Len(ycoord)]
        OnEdge(e) == e[1] = x_edge0 \/ e[1] = x_edge1 \/ e[2] = y_edge0 \/ e[2] = y_edge1
    IN  IF mode = "p" THEN SelectSeq(full, OnEdge) ELSE full

RECURSIVE add_anchors(_, _)
\* for a in anchor_coord: self.add_anchor(a[0], a[1])
add_anchors(eq, coords) ==
    IF coords = <<>> THEN eq
    ELSE add_anchors(add_anchor(eq, coords[1][1], coords[1][2]), Tail(coords))

\* Equipment.add_anchor_group(x0, y0, b, h, nx, ny, mode)
add_anchor_group(eq, x0, y0, b, h, nx, ny, mode) ==
    add_anchors(eq, anchor_coord(x0, y0, b, h, nx, ny, mode))

-----------------------------------------------------------------------------
(* solve: the steps before the sweep *)

Map(f(_), s) == [i \in 1..Len(s) |-> f(s[i])]

\* Equipment.calculate_cog.  sum(x_list) / self.N_anchor divides by a Python int:
\* N_anchor == 0 raises ZeroDivisionError before anything is assigned.
calculate_cog_raises(eq) == eq.N_anchor = 0

calculate_cog(eq) ==
    LET xo_of(a) == a.xo
        yo_of(a) == a.yo
        x_cog == Div(SumSeq(Map(xo_of, eq.anchor_list)), I(eq.N_anchor))
        y_cog == Div(SumSeq(Map(yo_of, eq.anchor_list)), I(eq.N_anchor))
    IN  [eq EXCEPT !.anchor_cog = <<x_cog, y_cog>>,
                   !.equip_cog = IF @ = None THEN <<x_cog, y_cog>> ELSE @]

\* Equipment.calculate_fp: the seismic force coefficient, before the load combination
Fp_governing(eq) ==
    LET Fp == Mul(Div(Mul(Mul(Q(2, 5), eq.ap), eq.Sds), Div(eq.Rp, eq.Ip)),
                  Add(I(1), Div(Mul(I(2), eq.z), eq.h)))
        Fpmax == Mul(Mul(Q(8, 5), eq.Sds), eq.Ip)
        Fpmin == Mul(Mul(Q(3, 10), eq.Sds), eq.Ip)
    IN  IF Lt(Fp, Fpmin) THEN Fpmin ELSE IF Gt(Fp, Fpmax) THEN Fpmax ELSE Fp

\* calculate_fp that raises for no load_combo
calculate_fp_never_raises(eq) == FALSE

\* Equipment.calculate_fp raises RuntimeError("load combo tag not recognized")
calculate_fp_raises(eq) == eq.load_combo \notin {"LRFD", "ASD"}

\* calculate_fp that scales the Fpgovern of the earlier call instead of the new one
calculate_fp_compounding(eq) ==
    LET Fpg == IF eq.Fpgovern = None THEN Fp_governing(eq) ELSE eq.Fpgovern IN
    IF eq.load_combo = "LRFD" THEN
        [eq EXCEPT !.Fpgovern = Fpg,
                   !.weight_factor = Sub(Q(9, 10), Mul(Q(1, 5), eq.Sds)),
                   !.Emh = Mul(Fpg, eq.omega)]
    ELSE IF eq.load_combo = "ASD" THEN
        [eq EXCEPT !.Fpgovern = Mul(Fpg, Q(7, 10)),
                   !.weight_factor = Sub(Q(3, 5), Mul(Mul(Q(7, 10), Q(1, 5)), eq.Sds)),
                   !.Emh = Mul(Mul(Fpg, Q(7, 10)), eq.omega)]
    ELSE [eq EXCEPT !.Fpgovern = Fpg]

\* Equipment.calculate_fp; when it raises, self.Fpgovern has been assigned already
calculate_fp(eq) ==
    LET Fpg == Fp_governing(eq) IN
    IF eq.load_combo = "LRFD" THEN
        [eq EXCEPT !.Fpgovern = Fpg,
                   !.weight_factor = Sub(Q(9, 10), Mul(Q(1, 5), eq.Sds)),
                   !.Emh = Mul(Fpg, eq.omega)]
    ELSE IF eq.load_combo = "ASD" THEN
        [eq EXCEPT !.Fpgovern = Mul(Fpg, Q(7, 10)),
                   !.weight_factor = Sub(Q(3, 5), Mul(Mul(Q(7, 10), Q(1, 5)), eq.Sds)),
                   !.Emh = Mul(Mul(Fpg, Q(7, 10)), eq.omega)]
    ELSE [eq EXCEPT !.Fpgovern = Fpg]

\* math.sqrt of a rational that is a square of a rational
RECURSIVE ISqrtIn(_, _, _)
\* the greatest k in lo..hi with k*k <= n, by bisection
ISqrtIn(n, lo, hi) ==
    IF lo >= hi THEN lo
    ELSE LET mid == (lo + hi + 1) \div 2
         IN  IF mid * mid <= n THEN ISqrtIn(n, mid, hi) ELSE ISqrtIn(n, lo, mid - 1)
ISqrt(n) == ISqrtIn(n, 0, IF n < 46340 THEN n ELSE 46340)
IsSquare(n) == ISqrt(n) * ISqrt(n) = n
HasSqrtQ(a) == a[1] >= 0 /\ IsSquare(a[1]) /\ IsSquare(a[2])
SqrtQ(a) == <<ISqrt(a[1]), ISqrt(a[2])>>

\* stilt_mode_prep: Ix, Iy and Ixy of the base layout about anchor_cog
base_inertia(eq) ==
    LET dx(a) == Sub(a.xo, eq.anchor_cog[1])
        dy(a) == Sub(a.yo, eq.anchor_cog[2])
        xsq(a) == Sq(dx(a))
        ysq(a) == Sq(dy(a))
        xy(a) == Mul(dx(a), dy(a))
    IN  [Ixy |-> SumSeq(Map(xy, eq.anchor_list)),
         Iy |-> SumSeq(Map(xsq, eq.anchor_list)),
         Ix |-> SumSeq(Map(ysq, eq.anchor_list))]

\* stilt_mode_prep: cos(2t) for t = atan(Ixy / ((Ix - Iy)/2)) / 2, and the squares
\* of cos(t) and sin(t) by the half-angle formulas
tan_2theta(J) == Div(J.Ixy, Div(Sub(J.Ix, J.Iy), I(2)))
cos_2theta_sq(J) == Div(I(1), Add(I(1), Sq(tan_2theta(J))))

\* whether theta has a rational sine and cosine (the model follows stilt_mode_prep
\* only on such layouts)
theta_is_rational(eq) ==
    LET J == base_inertia(eq) IN
    \/ J.Ix = J.Iy
    \/ /\ HasSqrtQ(cos_2theta_sq(J))
       /\ LET c2 == SqrtQ(cos_2theta_sq(J))
          IN  /\ HasSqrtQ(Div(Add(I(1), c2), I(2)))
              /\ HasSqrtQ(Div(Sub(I(1), c2), I(2)))

\* stilt_mode_prep: Ixy is zero in exact arithmetic but summed from coordinates
\* that an earlier stilt_mode_prep has rotated, and so rounded: what the program
\* holds is a residue of the size of the rounding error, of either sign
Ixy_is_residue(eq) ==
    /\ base_inertia(eq).Ixy = Zero
    /\ eq.theta # None
    /\ eq.theta # NoRot

\* theta = 90 + atan(r)/2 for a residue r < 0: a quarter turn
QuarterTurn == <<Zero, I(1)>>

\* stilt_mode_prep: theta, as <<cos(theta), sin(theta)>>
\*   theta = 0 if Ix == Iy, else atan(Ixy / ((Ix - Iy)/2)) / 2 in degrees,
\*   and 90 + theta when that is negative: so it is where Ixy is a residue that
\*   rounding has left negative against (Ix - Iy)/2
stilt_theta(eq) ==
    LET J == base_inertia(eq) IN
    IF J.Ix = J.Iy THEN NoRot
    ELSE IF rounding /\ Ixy_is_residue(eq) THEN QuarterTurn
    ELSE LET c2 == SqrtQ(cos_2theta_sq(J))
             ch == SqrtQ(Div(Add(I(1), c2), I(2)))     \* cos |t|
             sh == SqrtQ(Div(Sub(I(1), c2), I(2)))     \* sin |t|
         IN  IF Lt(tan_2theta(J), Zero) THEN <<sh, ch>> ELSE <<ch, sh>>

\* stilt_mode_prep that turns the anchors and the centroids and leaves the
\* footprint where it is
stilt_mode_prep_without_footprint(eq) ==
    LET theta == stilt_theta(eq)
        turn(a) == LET r == transform_rotate(<<a.xo, a.yo>>, theta)
                   IN  [a EXCEPT !.xo = r[1], !.yo = r[2]]
    IN  [eq EXCEPT !.anchor_list = Map(turn, @),
                   !.equip_cog = transform_rotate(@, theta),
                   !.anchor_cog = transform_rotate(@, theta)]

\* Equipment.stilt_mode_prep: rotate the layout to its principal axes (it returns
\* stilt_theta, which solve assigns to self.theta)
stilt_mode_prep(eq) ==
    LET turned(theta) ==
            LET turn(a) == LET r == transform_rotate(<<a.xo, a.yo>>, theta)
                           IN  [a EXCEPT !.xo = r[1], !.yo = r[2]]
                turn_pt(coord) == transform_rotate(coord, theta)
            IN  [eq EXCEPT !.anchor_list = Map(turn, @),
                           !.equip_cog = transform_rotate(@, theta),
                           !.anchor_cog = transform_rotate(@, theta),
                           !.bounding_points = Map(turn_pt, @)]
    IN  turned(stilt_theta(eq))

-----------------------------------------------------------------------------
(* solve: the four steps of one orientation *)

RECURSIVE ScanMax(_, _, _)
\* best = -inf; crit = None; for the first k items: if v > best: best = v; crit = tag
ScanMax(vals, tags, k) ==
    IF k = 0 THEN <<NegInf, None>>
    ELSE LET p == ScanMax(vals, tags, k - 1)
         IN  IF Gt(vals[k], p[1]) THEN <<vals[k], Some(tags[k])>> ELSE p

RECURSIVE ScanMin(_, _, _)
\* best = inf; crit = None; for the first k items: if v < best: best = v; crit = tag
ScanMin(vals, tags, k) ==
    IF k = 0 THEN <<PosInf, None>>
    ELSE LET p == ScanMin(vals, tags, k - 1)
         IN  IF Lt(vals[k], p[1]) THEN <<vals[k], Some(tags[k])>> ELSE p

Tags(eq) == [i \in 1..Len(eq.anchor_list) |-> eq.anchor_list[i].tag]

\* update_geometry that turns, for deg > 0, the snapshot of the orientation before
\* by deg instead of the base geometry
update_geometry_chained(eq, deg) ==
    LET prev == deg - DEG_INC
        turn(a) == LET from == IF deg = 0 THEN <<a.xo, a.yo>> ELSE <<a.x_360[prev], a.y_360[prev]>>
                       r == transform_rotate(from, Rot(deg))
                   IN  [a EXCEPT !.x_360 = Put(@, deg, r[1]),
                                 !.y_360 = Put(@, deg, r[2])]
        turn_pt(coord) == transform_rotate(coord, Rot(deg))
        equip_from == IF deg = 0 THEN eq.equip_cog ELSE eq.equip_cog_dict[prev]
        anchor_from == IF deg = 0 THEN eq.anchor_cog ELSE eq.anchor_cog_dict[prev]
        points_from == IF deg = 0 THEN eq.bounding_points ELSE eq.bounding_points_dict[prev]
    IN  [eq EXCEPT !.anchor_list = Map(turn, @),
                   !.equip_cog_dict = Put(@, deg, transform_rotate(equip_from, Rot(deg))),
                   !.anchor_cog_dict = Put(@, deg, transform_rotate(anchor_from, Rot(deg))),
                   !.bounding_points_dict = Put(@, deg, Map(turn_pt, points_from))]

\* Equipment.update_geometry(deg)
update_geometry(eq, deg) ==
    LET turn(a) == LET r == transform_rotate(<<a.xo, a.yo>>, Rot(deg))
                   IN  [a EXCEPT !.x_360 = Put(@, deg, r[1]),
                                 !.y_360 = Put(@, deg, r[2])]
        turn_pt(coord) == transform_rotate(coord, Rot(deg))
    IN  [eq EXCEPT !.anchor_list = Map(turn, @),
                   !.equip_cog_dict = Put(@, deg, transform_rotate(eq.equip_cog, Rot(deg))),
                   !.anchor_cog_dict = Put(@, deg, transform_rotate(eq.anchor_cog, Rot(deg))),
                   !.bounding_points_dict = Put(@, deg, Map(turn_pt, eq.bounding_points))]

\* calculate_I that keeps one Ix for all orientations: the latest
calculate_I_latest_Ix(eq, deg) ==
    LET dx(a) == Sub(a.x_360[deg], eq.anchor_cog_dict[deg][1])
        dy(a) == Sub(a.y_360[deg], eq.anchor_cog_dict[deg][2])
        xsq(a) == Sq(dx(a))
        ysq(a) == Sq(dy(a))
        xy(a) == Mul(dx(a), dy(a))
        Iy == SumSeq(Map(xsq, eq.anchor_list))
        Ix == SumSeq(Map(ysq, eq.anchor_list))
    IN  [eq EXCEPT !.Iy = Put(@, deg, Iy),
                   !.Ix = [k \in Keys(@) \cup {deg} |-> Ix],
                   !.Ixy = Put(@, deg, SumSeq(Map(xy, eq.anchor_list))),
                   !.Iz = Put(@, deg, Add(Ix, Iy))]

\* Equipment.calculate_I(deg)
calculate_I(eq, deg) ==
    LET dx(a) == Sub(a.x_360[deg], eq.anchor_cog_dict[deg][1])
        dy(a) == Sub(a.y_360[deg], eq.anchor_cog_dict[deg][2])
        xsq(a) == Sq(dx(a))
        ysq(a) == Sq(dy(a))
        xy(a) == Mul(dx(a), dy(a))
        Iy == SumSeq(Map(xsq, eq.anchor_list))
        Ix == SumSeq(Map(ysq, eq.anchor_list))
    IN  [eq EXCEPT !.Iy = Put(@, deg, Iy),
                   !.Ix = Put(@, deg, Ix),
                   !.Ixy = Put(@, deg, SumSeq(Map(xy, eq.anchor_list))),
                   !.Iz = Put(@, deg, Add(Ix, Iy))]

\* Fh = self.Emh * self.weight if self.use_omega else self.Fpgovern * self.weight
horizontal_force(eq) ==
    IF eq.use_omega THEN Mul(eq.Emh, eq.weight) ELSE Mul(eq.Fpgovern, eq.weight)

\* Equipment.calculate_shear_stilt(deg).  Vtotal_360 and V_max hold the square of
\* the magnitude.  The divisions by Iz[0] are numpy's.
calculate_shear_stilt(eq, deg) ==
    LET ecc_x == Sub(eq.equip_cog_dict[0][1], eq.anchor_cog_dict[0][1])
        ecc_y == Neg(Sub(eq.equip_cog_dict[0][2], eq.anchor_cog_dict[0][2]))
        Fh == horizontal_force(eq)
        Fh_y == Mul(Fh, CosDeg(deg))
        Fh_x == Mul(Fh, Neg(SinDeg(deg)))
        torsion == Add(Mul(Fh_y, ecc_x), Mul(Fh_x, ecc_y))
        vdx == Div(Neg(Fh_x), I(eq.N_anchor))
        vdy == Div(Neg(Fh_y), I(eq.N_anchor))
        rx(a) == Div(Mul(torsion, Sub(a.y_360[0], eq.anchor_cog_dict[0][2])), eq.Iz[0])
        ry(a) == Div(Mul(Neg(torsion), Sub(a.x_360[0], eq.anchor_cog_dict[0][1])), eq.Iz[0])
        vtotal(a) == Add(Sq(Add(rx(a), vdx)), Sq(Add(ry(a), vdy)))
        save(a) == [a EXCEPT !.vd_360 = Put(@, deg, <<vdx, vdy>>),
                             !.vt_360 = Put(@, deg, <<rx(a), ry(a)>>),
                             !.Vtotal_360 = Put(@, deg, vtotal(a))]
        best == ScanMax(Map(vtotal, eq.anchor_list), Tags(eq), Len(eq.anchor_list))
    IN  [eq EXCEPT !.anchor_list = Map(save, @),
                   !.V_max = Put(@, deg, best[1]),
                   !.torsion = Put(@, deg, torsion),
                   !.V_crit_anchor = Put(@, deg, best[2]),
                   !.ecc_x = Put(@, deg, ecc_x),
                   !.ecc_y = Put(@, deg, ecc_y)]

\* Equipment.calculate_shear_pivot(deg).  Vtotal_360 and V_max hold the square of
\* the magnitude.  The divisions by Iz[deg] are numpy's.
calculate_shear_pivot(eq, deg) ==
    LET ecc_x == Sub(eq.equip_cog_dict[deg][1], eq.anchor_cog_dict[deg][1])
        ecc_y == Zero
        Fh == horizontal_force(eq)
        Fh_y == Fh
        torsion == Mul(Fh_y, ecc_x)
        vdx == Zero
        vdy == Div(Neg(Fh_y), I(eq.N_anchor))
        rx(a) == Div(Mul(torsion, Sub(a.y_360[deg], eq.anchor_cog_dict[deg][2])), eq.Iz[deg])
        ry(a) == Div(Mul(Neg(torsion), Sub(a.x_360[deg], eq.anchor_cog_dict[deg][1])), eq.Iz[deg])
        vtotal(a) == Add(Sq(Add(rx(a), vdx)), Sq(Add(ry(a), vdy)))
        save(a) == [a EXCEPT !.vd_360 = Put(@, deg, <<Zero, vdy>>),
                             !.vt_360 = Put(@, deg, <<rx(a), ry(a)>>),
                             !.Vtotal_360 = Put(@, deg, vtotal(a))]
        best == ScanMax(Map(vtotal, eq.anchor_list), Tags(eq), Len(eq.anchor_list))
    IN  [eq EXCEPT !.anchor_list = Map(save, @),
                   !.V_max = Put(@, deg, best[1]),
                   !.ecc_x = Put(@, deg, ecc_x),
                   !.ecc_y = Put(@, deg, ecc_y),
                   !.torsion = Put(@, deg, torsion),
                   !.V_crit_anchor = Put(@, deg, best[2])]

\* calculate_tension_stilt: W = -(self.weight_factor * self.weight)
stilt_W(eq) == Neg(Mul(eq.weight_factor, eq.weight))

\* T_axial that shares the unfactored weight among the anchors
stilt_T_axial_unfactored(eq) == Div(Neg(eq.weight), I(eq.N_anchor))

\* calculate_tension_stilt: T_axial = W / self.N_anchor
stilt_T_axial(eq) == Div(stilt_W(eq), I(eq.N_anchor))

\* Equipment.calculate_tension_stilt(deg).  M_ot holds the square of the magnitude.
\* The divisions by Ix[0] and Iy[0] are numpy's; W / N_anchor has N_anchor >= 1.
calculate_tension_stilt(eq, deg) ==
    LET W == stilt_W(eq)
        dx == Sub(eq.equip_cog[1], eq.anchor_cog[1])
        dy == Sub(eq.equip_cog[2], eq.anchor_cog[2])
        Mwx == Mul(W, dy)
        Mwy == Neg(Mul(W, dx))
        F == horizontal_force(eq)
        Motx == Mul(Neg(Mul(F, CosDeg(deg))), eq.CGz)
        Moty == Mul(Mul(F, Neg(SinDeg(deg))), eq.CGz)
        T_axial == stilt_T_axial(eq)
        cx(a) == Sub(a.xo, eq.anchor_cog[1])
        cy(a) == Sub(a.yo, eq.anchor_cog[2])
        T_x(a) == Div(Mul(Add(Mwx, Motx), cy(a)), eq.Ix[0])
        T_y(a) == Neg(Div(Mul(Add(Mwy, Moty), cx(a)), eq.Iy[0]))
        T_total(a) == Add(Add(T_axial, T_x(a)), T_y(a))
        save(a) == [a EXCEPT !.d_360 = Put(@, deg, Zero),
                             !.Ttotal_360 = Put(@, deg, T_total(a)),
                             !.cx_360 = Put(@, deg, cx(a)),
                             !.cy_360 = Put(@, deg, cy(a)),
                             !.Tx_360 = Put(@, deg, T_x(a)),
                             !.Ty_360 = Put(@, deg, T_y(a)),
                             !.Ta_360 = Put(@, deg, T_axial)]
        totals == Map(T_total, eq.anchor_list)
        hi == ScanMax(totals, Tags(eq), Len(eq.anchor_list))
        lo == ScanMin(totals, Tags(eq), Len(eq.anchor_list))
    IN  [eq EXCEPT !.anchor_list = Map(save, @),
                   !.Fh_y = Put(@, deg, Mul(F, CosDeg(deg))),
                   !.Fh_x = Put(@, deg, Mul(F, Neg(SinDeg(deg)))),
                   !.Mw_x = Put(@, deg, Mwx),
                   !.Mw_y = Put(@, deg, Mwy),
                   !.Mot_x = Put(@, deg, Motx),
                   !.Mot_y = Put(@, deg, Moty),
                   !.Mtotal_x = Put(@, deg, Add(Motx, Mwx)),
                   !.Mtotal_y = Put(@, deg, Add(Moty, Mwy)),
                   !.T_crit_anchor = Put(@, deg, hi[2]),
                   !.C_crit_anchor = Put(@, deg, lo[2]),
                   !.M_ot = Put(@, deg, Add(Sq(Add(Mwx, Motx)), Sq(Add(Mwy, Moty)))),
                   !.T_min = Put(@, deg, lo[1]),
                   !.T_max = Put(@, deg, hi[1]),
                   !.Fh = Put(@, deg, F),
                   !.Fv = Put(@, deg, W)]

\* calculate_tension_pivot: the pivot line, y_max over bounding_points_dict[deg]
pivot_y_max(eq, deg) ==
    LET pts == eq.bounding_points_dict[deg]
        ys == [i \in 1..Len(pts) |-> pts[i][2]]
    IN  ScanMax(ys, ys, Len(pts))[1]

\* a lever arm taken to the anchor's base position instead of its rotated one
lever_arm_unrotated(eq, deg, a) == PyMax(Sub(pivot_y_max(eq, deg), a.yo), Zero)

\* calculate_tension_pivot: d_current = max(y_max - a.y_360[deg], 0)
lever_arm(eq, deg, a) == PyMax(Sub(pivot_y_max(eq, deg), a.y_360[deg]), Zero)

\* calculate_tension_pivot: the lever-arm loop, which assigns a.d_360[deg]
pivot_lever_arms(eq, deg) ==
    LET save(a) == [a EXCEPT !.d_360 = Put(@, deg, lever_arm(eq, deg, a))]
    IN  [eq EXCEPT !.anchor_list = Map(save, @)]

\* calculate_tension_pivot raises ZeroDivisionError in a.d_360[deg]**2 / d_max when
\* both are the Python int 0: max(v, 0) returns the literal 0 when v < 0 and the
\* numpy scalar v when v >= 0, and d_max is the first anchor's arm unless a later
\* one is larger.  So it raises when no arm is positive and the first anchor lies
\* strictly above the pivot line (or there is no footprint: y_max = -inf).
calculate_tension_pivot_raises(eq, deg) ==
    LET al == eq.anchor_list IN
    /\ \A i \in 1..Len(al) : ~Gt(lever_arm(eq, deg, al[i]), Zero)
    /\ Lt(Sub(pivot_y_max(eq, deg), al[1].y_360[deg]), Zero)

\* Equipment.calculate_tension_pivot(deg), when it does not raise
calculate_tension_pivot(eq, deg) ==
    LET y_max == pivot_y_max(eq, deg)
        e1 == pivot_lever_arms(eq, deg)
        d_of(a) == a.d_360[deg]
        arms == Map(d_of, e1.anchor_list)
        far == ScanMax(arms, Tags(eq), Len(arms))
        d_max == far[1]
        Fv == Mul(eq.weight_factor, eq.weight)
        Fh == horizontal_force(eq)
        Mot == Mul(Fh, eq.CGz)
        Mr == Mul(Fv, AbsQ(Sub(y_max, eq.equip_cog_dict[deg][2])))
        Mnet == PyMax(Sub(Mot, Mr), Zero)
        share(a) == Div(Sq(a.d_360[deg]), d_max)
        Tmax == Div(Mnet, SumSeq(Map(share, e1.anchor_list)))
        save(a) == [a EXCEPT !.Ttotal_360 = Put(@, deg, Mul(Div(a.d_360[deg], d_max), Tmax))]
    IN  [e1 EXCEPT !.anchor_list = Map(save, @),
                   !.y_max = Put(@, deg, y_max),
                   !.d_max = Put(@, deg, d_max),
                   !.T_crit_anchor = Put(@, deg, far[2]),
                   !.M_ot = Put(@, deg, Mot),
                   !.M_r = Put(@, deg, Mr),
                   !.M_net = Put(@, deg, Mnet),
                   !.T_max = Put(@, deg, Tmax),
                   !.Fh = Put(@, deg, Fh),
                   !.Fv = Put(@, deg, Fv)]

-----------------------------------------------------------------------------
(* Consumers: export_data and the plotter *)

\* d[k] can be read from every one of dicts for every k of keys
HasAll(dicts, keys) == \A i \in 1..Len(dicts) : keys \subseteq Keys(dicts[i])

\* for deg in self.orientations
Orientations(eq) == {eq.orientations[i] : i \in 1..Len(eq.orientations)}

\* export_data: every d[deg] it reads is present (otherwise KeyError)
export_reads_ok(eq) ==
    LET common == <<eq.Fv, eq.ecc_x, eq.torsion, eq.T_max, eq.V_max, eq.T_crit_anchor,
                    eq.V_crit_anchor, eq.equip_cog_dict, eq.anchor_cog_dict,
                    eq.Ix, eq.Iy, eq.Iz, eq.Ixy>>
        stilt == <<eq.Fh_x, eq.Fh_y, eq.Mot_x, eq.Mot_y, eq.Mw_x, eq.Mw_y, eq.Mtotal_x,
                   eq.Mtotal_y, eq.ecc_y, eq.T_min, eq.C_crit_anchor>>
        pivot == <<eq.M_ot, eq.M_r, eq.M_net, eq.d_max>>
        a_common(a) == <<a.y_360, a.vd_360, a.vt_360, a.Vtotal_360, a.Ttotal_360>>
        a_stilt(a) == <<a.cx_360, a.cy_360, a.Tx_360, a.Ty_360, a.Ta_360>>
        a_pivot(a) == <<a.d_360>>
    IN  /\ HasAll(common \o (IF eq.on_stilt THEN stilt ELSE pivot), Keys(eq.Fh))
        /\ \A i \in 1..Len(eq.anchor_list) :
              LET a == eq.anchor_list[i] IN
              HasAll(a_common(a) \o (IF eq.on_stilt THEN a_stilt(a) ELSE a_pivot(a)),
                     Keys(a.x_360))

\* plot_anchor: the exception it ends with ("none": it returns the figure)
plot_anchor_outcome(eq, anchorID) ==
    IF anchorID >= Len(eq.anchor_list) THEN "IndexError"
    ELSE IF eq.orientations = None THEN "TypeError"
    ELSE LET a == eq.anchor_list[anchorID + 1] IN
         IF ~HasAll(<<a.Ttotal_360, a.Vtotal_360>>, Orientations(eq))
         THEN "KeyError" ELSE "none"

\* plot_equipment: the exception it ends with, up to its last read of the model
plot_equipment_outcome(eq) ==
    IF eq.orientations = None THEN "TypeError"
    ELSE IF ~HasAll(<<eq.T_max, eq.V_max, eq.T_crit_anchor, eq.V_crit_anchor>>,
                    Orientations(eq))
         THEN "KeyError"
    ELSE IF \E j \in 1..Len(eq.anchor_list) :
                ~HasAll(<<eq.anchor_list[j].Ttotal_360, eq.anchor_list[j].Vtotal_360>>,
                        Orientations(eq))
         THEN "KeyError"
    ELSE IF eq.bounding_points = <<>> THEN "ValueError"
    ELSE "none"

-----------------------------------------------------------------------------
(* Inputs *)

Config(load_combo, use_omega, ap, Rp, z, CG) ==
    [name |-> "EQ", Sds |-> I(1), Ip |-> I(1), h |-> I(1), z |-> z, ap |-> ap,
     Rp |-> Rp, omega |-> I(2), weight |-> I(10), CGz |-> I(2), CG |-> CG,
     load_combo |-> load_combo, use_omega |-> use_omega]

\* the constructor arguments the model draws from
Configs ==
    { Config("LRFD", TRUE, Q(5, 2), I(2), I(1), None),
      Config("ASD", FALSE, I(1), I(2), I(0), <<I(1), I(0)>>),
      Config("XYZ", TRUE, Q(5, 2), I(2), I(1), None) }

AnchorPoints == { <<I(0), I(0)>>, <<I(4), I(-3)>> }
FootprintArgs == { <<I(0), I(0), I(2), I(2)>> }
\* add_footprint is followed once for each footprint drawn
MaxFootprints == Cardinality(FootprintArgs)
GroupArgs == { <<I(0), I(0), I(2), I(2), 2, 1, "p">> }
AnchorIDs == {0}
\* docs/simplecase.py at 1/5 of its lengths, under the constructor arguments of
\* the first of Configs
SceneConfig == Config("LRFD", TRUE, Q(5, 2), I(2), I(1), None)
SceneFootprint == <<I(0), I(0), I(16), I(16)>>
SceneGroup == <<I(1), I(1), I(14), I(14), 2, 2, "p">>
\* two anchors whose principal axes are turned by atan(4/3) against x and y
ScenePoints == { <<I(0), I(0)>>, <<I(4), I(3)>> }
\* the two rectangles main.py makes its L-shaped footprint of, at 1/30 of their size
FootprintPieces == { <<I(0), I(0), I(2), I(4)>>, <<I(2), I(2), I(2), I(2)>> }

\* anchors for stilt_mode_prep: pairs on the x axis, on the diagonal (Ix == Iy with
\* Ixy # 0) and on a line at atan(3/4) to the x axis
PrincipalPoints == { <<I(0), I(0)>>, <<I(2), I(0)>>, <<I(1), I(1)>>, <<I(4), I(3)>> }

\* the grids drawn for add_anchor_group on its own
GridArgs ==
    { <<x0, I(0), b, h, nx, ny, mode>> :
        x0 \in {I(0), I(1)}, b \in {I(0), I(6), I(-6)}, h \in {I(0), I(6)},
        nx \in 1..MaxGridCount, ny \in 1..MaxGridCount, mode \in {"f", "p"} }

-----------------------------------------------------------------------------
(* Actions *)

Idle == pc = "idle"
\* the call in progress or last made: the operation and its arguments, and what
\* held when it was made (N_anchor, is_solved, on_stilt, and whether the call
\* before it was a solve that returned)
Called(op, args) ==
    [op |-> op, args |-> args, N0 |-> self.N_anchor, solved0 |-> self.is_solved,
     stilt0 |-> self.on_stilt, follows_solve |-> call.op = "solve" /\ raised = "none"]

Returns(eq) ==
    /\ self' = eq
    /\ pc' = "idle"
    /\ raised' = "none"
    /\ deg_i' = 0

Raises(eq, exc) ==
    /\ self' = eq
    /\ pc' = "idle"
    /\ raised' = exc
    /\ deg_i' = 0

AddFootprint(a) ==
    /\ Idle
    /\ call' = Called("add_footprint", a)
    /\ Returns(add_footprint(self, a[1], a[2], a[3], a[4]))
    /\ figures' = FALSE
    /\ UNCHANGED <<on_stilt, n_calls, rounding>>

AddAnchor(a) ==
    /\ Idle
    /\ call' = Called("add_anchor", a)
    /\ Returns(add_anchor(self, a[1], a[2]))
    /\ figures' = FALSE
    /\ UNCHANGED <<on_stilt, n_calls, rounding>>

AddAnchorGroup(a) ==
    /\ Idle
    /\ call' = Called("add_anchor_group", a)
    /\ Returns(add_anchor_group(self, a[1], a[2], a[3], a[4], a[5], a[6], a[7]))
    /\ figures' = FALSE
    /\ UNCHANGED <<on_stilt, n_calls, rounding>>

\* solve(on_stilt) is called; r says how the rounding of this solve falls
SolveWith(stilt, r) ==
    /\ Idle
    /\ n_calls < MaxSolves
    /\ stilt => (calculate_cog_raises(self) \/ theta_is_rational(calculate_cog(self)))
    /\ call' = Called("solve", <<stilt>>)
    /\ pc' = "calculate_cog"
    /\ on_stilt' = stilt
    /\ raised' = "none"
    /\ figures' = FALSE
    /\ n_calls' = n_calls + 1
    /\ rounding' = r
    /\ UNCHANGED <<self, deg_i>>

\* solve(on_stilt) is called, and no comparison of it is decided by rounding
Solve(stilt) == SolveWith(stilt, FALSE)

\* solve: self.calculate_cog()
CalculateCog ==
    /\ pc = "calculate_cog"
    /\ IF calculate_cog_raises(self)
       THEN Raises(self, "ZeroDivisionError")
       ELSE /\ self' = calculate_cog(self)
            /\ pc' = "calculate_fp"
            /\ UNCHANGED <<raised, deg_i>>
    /\ UNCHANGED <<on_stilt, call, figures, n_calls, rounding>>

\* solve: self.calculate_fp(), then on to stilt_mode_prep or to the first orientation
CalculateFp ==
    /\ pc = "calculate_fp"
    /\ IF calculate_fp_raises(self)
       THEN Raises(calculate_fp(self), "RuntimeError")
       ELSE /\ self' = calculate_fp(self)
            /\ pc' = IF on_stilt THEN "stilt_mode_prep" ELSE "sweep"
            /\ deg_i' = IF on_stilt THEN 0 ELSE 1
            /\ UNCHANGED raised
    /\ UNCHANGED <<on_stilt, call, figures, n_calls, rounding>>

\* solve: if on_stilt: self.theta = self.stilt_mode_prep()
StiltModePrep ==
    /\ pc = "stilt_mode_prep"
    /\ self' = [stilt_mode_prep(self) EXCEPT !.theta = stilt_theta(self)]
    /\ pc' = "sweep"
    /\ deg_i' = 1
    /\ UNCHANGED <<on_stilt, call, raised, figures, n_calls, rounding>>

\* solve: self.calculate_shear_stilt(deg) if on_stilt else self.calculate_shear_pivot(deg)
calculate_shear(eq, stilt, deg) ==
    IF stilt THEN calculate_shear_stilt(eq, deg) ELSE calculate_shear_pivot(eq, deg)

\* solve, the loop body up to the tension step: update_geometry(deg),
\* calculate_I(deg), then calculate_shear_stilt(deg) or calculate_shear_pivot(deg)
before_tension(eq, stilt, deg) ==
    calculate_shear(calculate_I(update_geometry(eq, deg), deg), stilt, deg)

\* the tag a running maximum or minimum records when, of the values that tie for
\* best in exact arithmetic, rounding has made a later one the best: the last of them
LastTied(vals, tags, best, crit) ==
    IF crit = None THEN None
    ELSE LET tied == {i \in 1..Len(vals) : vals[i] = best}
         IN  Some(tags[CHOOSE i \in tied : \A j \in tied : j <= i])

\* the critical anchors of orientation deg when rounding decides the ties:
\* `vtotal > Vmax`, `T_total > Tmax`, `T_total < Tmin` and `d_current > d_max`
\* compare values that sin and cos of deg have rounded
late_ties(eq, stilt, deg) ==
    LET val(store(_)) == [i \in 1..Len(eq.anchor_list) |-> store(eq.anchor_list[i])[deg]]
        V(a) == a.Vtotal_360
        T(a) == a.Ttotal_360
        d(a) == a.d_360
    IN  IF stilt
        THEN [eq EXCEPT
                !.V_crit_anchor[deg] = LastTied(val(V), Tags(eq), eq.V_max[deg], @),
                !.T_crit_anchor[deg] = LastTied(val(T), Tags(eq), eq.T_max[deg], @),
                !.C_crit_anchor[deg] = LastTied(val(T), Tags(eq), eq.T_min[deg], @)]
        ELSE [eq EXCEPT
                !.V_crit_anchor[deg] = LastTied(val(V), Tags(eq), eq.V_max[deg], @),
                !.T_crit_anchor[deg] = LastTied(val(d), Tags(eq), eq.d_max[deg], @)]

\* solve: self.calculate_tension_stilt(deg) if on_stilt else
\* self.calculate_tension_pivot(deg), when it does not raise
calculate_tension(eq, stilt, deg) ==
    LET ties(t) == IF rounding /\ deg # 0 THEN late_ties(t, stilt, deg) ELSE t
    IN  ties(IF stilt THEN calculate_tension_stilt(eq, deg)
             ELSE calculate_tension_pivot(eq, deg))

\* solve, the loop body for one orientation when it does not raise
orientation(eq, stilt, deg) ==
    calculate_tension(before_tension(eq, stilt, deg), stilt, deg)

\* the loop body raises ZeroDivisionError (in calculate_tension_pivot)
orientation_raises(eq, stilt, deg) ==
    ~stilt /\ calculate_tension_pivot_raises(before_tension(eq, stilt, deg), deg)

\* the stilt-mode steps read entry 0 of equip_cog_dict, anchor_cog_dict, Iz, Ix,
\* Iy and of every anchor's x_360 and y_360, whatever deg is: a KeyError where
\* one of them has no entry 0 and the loop body is not the one that writes it
orientation_key_error(eq, stilt, deg) ==
    /\ stilt
    /\ deg # 0
    /\ \/ ~HasAll(<<eq.equip_cog_dict, eq.anchor_cog_dict, eq.Iz, eq.Ix, eq.Iy>>, {0})
       \/ \E i \in 1..Len(eq.anchor_list) :
             ~HasAll(<<eq.anchor_list[i].x_360, eq.anchor_list[i].y_360>>, {0})

\* solve, one pass of the loop: the four calls for degrees[deg_i]; then the next
\* orientation, or the end of the loop.  calculate_tension_pivot may raise after
\* the calls before it have stored their results.
Orientation ==
    /\ pc = "sweep"
    /\ LET deg == degrees[deg_i]
           \* the last call of the pass, on what the three calls before it leave
           tension(v) ==
               IF ~on_stilt /\ calculate_tension_pivot_raises(v, deg)
               THEN Raises(pivot_lever_arms(v, deg), "ZeroDivisionError")
               ELSE /\ self' = calculate_tension(v, on_stilt, deg)
                    /\ IF deg_i < Len(degrees)
                       THEN pc' = "sweep" /\ deg_i' = deg_i + 1
                       ELSE pc' = "finish" /\ deg_i' = deg_i
                    /\ UNCHANGED raised
       IN  tension(before_tension(self, on_stilt, deg))
    /\ UNCHANGED <<on_stilt, call, figures, n_calls, rounding>>

\* solve, the loop body call by call: the position after the call p; "sweep" is the
\* head of the loop, where update_geometry is called
step_after_shear_before_I(p) ==
    CASE p = "update_geometry" -> "calculate_shear"
      [] p = "calculate_shear" -> "calculate_I"
      [] p = "calculate_I" -> "calculate_tension"
      [] p = "calculate_tension" -> "sweep"

\* solve, the loop body call by call: update_geometry, calculate_I,
\* calculate_shear_*, calculate_tension_*, and back to the head of the loop
step_after(p) ==
    CASE p = "update_geometry" -> "calculate_I"
      [] p = "calculate_I" -> "calculate_shear"
      [] p = "calculate_shear" -> "calculate_tension"
      [] p = "calculate_tension" -> "sweep"

\* the entries a call of the loop body reads from the per-orientation stores
\* without having written them itself: one that is missing is a KeyError
step_key_error(eq, p, stilt, deg) ==
    LET al == eq.anchor_list
        snapshot(d) ==
            /\ HasAll(<<eq.equip_cog_dict, eq.anchor_cog_dict>>, {d})
            /\ \A i \in 1..Len(al) : HasAll(<<al[i].x_360, al[i].y_360>>, {d})
    IN  CASE p = "update_geometry" -> FALSE
          [] p = "calculate_I" ->
                ~(/\ HasAll(<<eq.anchor_cog_dict>>, {deg})
                  /\ \A i \in 1..Len(al) : HasAll(<<al[i].x_360, al[i].y_360>>, {deg}))
          [] p = "calculate_shear" ->
                IF stilt THEN ~(snapshot(0) /\ (Len(al) = 0 \/ HasAll(<<eq.Iz>>, {0})))
                ELSE ~(snapshot(deg) /\ (Len(al) = 0 \/ HasAll(<<eq.Iz>>, {deg})))
          [] p = "calculate_tension" ->
                IF stilt THEN Len(al) > 0 /\ ~HasAll(<<eq.Ix, eq.Iy>>, {0})
                ELSE ~(/\ HasAll(<<eq.bounding_points_dict, eq.equip_cog_dict>>, {deg})
                       /\ \A i \in 1..Len(al) : HasAll(<<al[i].y_360>>, {deg}))

\* solve, the call p of the loop body for degrees[deg_i]; after is what the call
\* makes of the model when it does not raise.  After the last call of the pass
\* comes the next orientation or the end of the loop.
LoopCall(p, after) ==
    /\ LET deg == degrees[deg_i] IN
       IF step_key_error(self, p, on_stilt, deg) THEN Raises(self, "KeyError")
       ELSE IF p = "calculate_tension" /\ ~on_stilt /\ calculate_tension_pivot_raises(self, deg)
       THEN Raises(pivot_lever_arms(self, deg), "ZeroDivisionError")
       ELSE /\ self' = after
            /\ IF step_after(p) # "sweep" THEN pc' = step_after(p) /\ deg_i' = deg_i
               ELSE IF deg_i < Len(degrees) THEN pc' = "sweep" /\ deg_i' = deg_i + 1
               ELSE pc' = "finish" /\ deg_i' = deg_i
            /\ UNCHANGED raised
    /\ UNCHANGED <<on_stilt, call, figures, n_calls, rounding>>

\* solve: self.update_geometry(deg), at the head of the loop
UpdateGeometry ==
    /\ pc = "sweep"
    /\ LoopCall("update_geometry", update_geometry(self, degrees[deg_i]))

\* solve: self.calculate_I(deg)
CalculateI ==
    /\ pc = "calculate_I"
    /\ LoopCall("calculate_I", calculate_I(self, degrees[deg_i]))

\* solve: self.calculate_shear_stilt(deg) if on_stilt else self.calculate_shear_pivot(deg)
CalculateShear ==
    /\ pc = "calculate_shear"
    /\ LoopCall("calculate_shear", calculate_shear(self, on_stilt, degrees[deg_i]))

\* solve: self.calculate_tension_stilt(deg) if on_stilt else self.calculate_tension_pivot(deg)
CalculateTension ==
    /\ pc = "calculate_tension"
    /\ LoopCall("calculate_tension", calculate_tension(self, on_stilt, degrees[deg_i]))

\* solve_finish that leaves on_stilt as it was
solve_finish_keeps_flag(eq, stilt) ==
    [eq EXCEPT !.is_solved = TRUE, !.orientations = degrees]

\* solve, after the loop: is_solved, orientations and on_stilt are assigned
solve_finish(eq, stilt) ==
    [eq EXCEPT !.is_solved = TRUE, !.orientations = degrees, !.on_stilt = stilt]

SolveFinish ==
    /\ pc = "finish"
    /\ Returns(solve_finish(self, on_stilt))
    /\ UNCHANGED <<on_stilt, call, figures, n_calls, rounding>>

\* Equipment.export_data()
ExportData ==
    /\ Idle
    /\ call' = Called("export_data", <<>>)
    /\ figures' = FALSE
    /\ IF ~self.is_solved THEN Raises(self, "RuntimeError")
       ELSE LET made == [self EXCEPT !.folder_created = TRUE,
                                     !.output_dir = <<"run_results">>]
            IN  IF export_reads_ok(self) THEN Returns(made) ELSE Raises(made, "KeyError")
    /\ UNCHANGED <<on_stilt, n_calls, rounding>>

\* plotter.plot_anchor(equip, anchorID): plt.subplots comes first
PlotAnchor(anchorID) ==
    /\ Idle
    /\ call' = Called("plot_anchor", <<anchorID>>)
    /\ figures' = TRUE
    /\ Raises(self, plot_anchor_outcome(self, anchorID))
    /\ UNCHANGED <<on_stilt, n_calls, rounding>>

\* plotter.plot_equipment(equip): plt.subplots comes first
PlotEquipment ==
    /\ Idle
    /\ call' = Called("plot_equipment", <<>>)
    /\ figures' = TRUE
    /\ Raises(self, plot_equipment_outcome(self))
    /\ UNCHANGED <<on_stilt, n_calls, rounding>>

-----------------------------------------------------------------------------
(* Specifications *)

Fresh(cfg) ==
    /\ self = Equipment(cfg)
    /\ pc = "idle"
    /\ on_stilt = FALSE
    /\ deg_i = 0
    /\ call = [op |-> "__init__", args |-> <<>>, N0 |-> 0, solved0 |-> FALSE,
               stilt0 |-> FALSE, follows_solve |-> FALSE]
    /\ raised = "none"
    /\ figures = FALSE
    /\ n_calls = 0
    /\ rounding = FALSE

Init == \E cfg \in Configs : Fresh(cfg)

Next ==
    \/ \E a \in FootprintArgs :
          Len(self.bounding_points) < 4 * MaxFootprints /\ AddFootprint(a)
    \/ \E a \in AnchorPoints : self.N_anchor < MaxAnchors /\ AddAnchor(a)
    \/ \E a \in GroupArgs :
          /\ self.N_anchor + Len(anchor_coord(a[1], a[2], a[3], a[4], a[5], a[6], a[7])) <= MaxAnchors
          /\ AddAnchorGroup(a)
    \/ \E stilt \in BOOLEAN : Solve(stilt)
    \/ CalculateCog
    \/ CalculateFp
    \/ StiltModePrep
    \/ Orientation
    \/ SolveFinish
    \/ ExportData
    \/ \E id \in AnchorIDs : PlotAnchor(id)
    \/ PlotEquipment

Spec == Init /\ [][Next]_vars

\* add_anchor_group on its own: one call, on a new model or on one that has an anchor
InitGrid ==
    \E cfg \in Configs :
        \/ Fresh(cfg)
        \/ /\ self = add_anchor(Equipment(cfg), I(1), I(1))
           /\ pc = "idle" /\ on_stilt = FALSE /\ deg_i = 0
           /\ call = [op |-> "add_anchor", args |-> <<I(1), I(1)>>, N0 |-> 0, solved0 |-> FALSE,
                   stilt0 |-> FALSE, follows_solve |-> FALSE]
           /\ raised = "none" /\ figures = FALSE /\ n_calls = 0 /\ rounding = FALSE

NextGrid ==
    \E a \in GridArgs : call.op # "add_anchor_group" /\ AddAnchorGroup(a)

SpecGrid == InitGrid /\ [][NextGrid]_vars

\* the builder on its own: a footprint made of several rectangles (main.py adds
\* two) and anchors, in any order
NextBuild ==
    \/ \E a \in FootprintPieces :
          Len(self.bounding_points) < 4 * MaxFootprintCalls /\ AddFootprint(a)
    \/ \E a \in AnchorPoints : self.N_anchor < MaxAnchors /\ AddAnchor(a)
    \/ \E a \in GroupArgs :
          /\ self.N_anchor + Len(anchor_coord(a[1], a[2], a[3], a[4], a[5], a[6], a[7])) <= MaxAnchors
          /\ AddAnchorGroup(a)

SpecBuild == Init /\ [][NextBuild]_vars

\* the layout of docs/simplecase.py (a square footprint with a 2x2 perimeter group
\* set in from its edge by the same amount on every side, no CGx, CGy) and a layout
\* of two anchors whose principal axes are oblique, solved in either mode, with
\* and without rounding deciding the comparisons
InitScene == Fresh(SceneConfig)

NextScene ==
    \/ Len(self.bounding_points) = 0 /\ AddFootprint(SceneFootprint)
    \/ \E a \in ScenePoints : self.N_anchor < 2 /\ AddAnchor(a)
    \/ self.N_anchor = 0 /\ AddAnchorGroup(SceneGroup)
    \/ \E stilt \in BOOLEAN, r \in BOOLEAN : SolveWith(stilt, r)
    \/ CalculateCog
    \/ CalculateFp
    \/ StiltModePrep
    \/ Orientation
    \/ SolveFinish

SpecScene == InitScene /\ [][NextScene]_vars

\* the scene again, with the loop body of solve followed call by call
NextSteps ==
    \/ Len(self.bounding_points) = 0 /\ AddFootprint(SceneFootprint)
    \/ \E a \in ScenePoints : self.N_anchor < 2 /\ AddAnchor(a)
    \/ self.N_anchor = 0 /\ AddAnchorGroup(SceneGroup)
    \/ \E stilt \in BOOLEAN : Solve(stilt)
    \/ CalculateCog
    \/ CalculateFp
    \/ StiltModePrep
    \/ UpdateGeometry
    \/ CalculateI
    \/ CalculateShear
    \/ CalculateTension
    \/ SolveFinish

SpecSteps == InitScene /\ [][NextSteps]_vars

\* stilt-mode solves of two-anchor layouts whose principal axes lie at several
\* angles to x and y
NextPrincipal ==
    \/ \E a \in PrincipalPoints : self.N_anchor < 2 /\ AddAnchor(a)
    \/ Solve(TRUE)
    \/ CalculateCog
    \/ CalculateFp
    \/ StiltModePrep
    \/ Orientation
    \/ SolveFinish

SpecPrincipal == InitScene /\ [][NextPrincipal]_vars

-----------------------------------------------------------------------------
(* Vocabulary of the properties *)

\* the orientations a sweep samples, written without the loop's list
SampledOrientations == {d \in 0..360 : d % DEG_INC = 0}

\* the per-orientation stores of the equipment: those both modes write, those
\* only pivot mode writes, those only stilt mode writes
EquipCommon(eq) ==
    <<eq.Ix, eq.Iy, eq.Iz, eq.Ixy, eq.equip_cog_dict, eq.anchor_cog_dict,
      eq.bounding_points_dict, eq.Fh, eq.Fv, eq.ecc_x, eq.ecc_y, eq.torsion,
      eq.T_max, eq.V_max, eq.T_crit_anchor, eq.V_crit_anchor, eq.M_ot>>
EquipPivotOnly(eq) == <<eq.y_max, eq.M_r, eq.M_net, eq.d_max>>
EquipStiltOnly(eq) ==
    <<eq.Fh_x, eq.Fh_y, eq.Mw_x, eq.Mw_y, eq.Mot_x, eq.Mot_y, eq.Mtotal_x,
      eq.Mtotal_y, eq.T_min, eq.C_crit_anchor>>

\* the per-orientation stores of an anchor
AnchorCommon(a) ==
    <<a.x_360, a.y_360, a.vd_360, a.vt_360, a.Vtotal_360, a.Ttotal_360, a.d_360>>
AnchorStiltOnly(a) == <<a.cx_360, a.cy_360, a.Tx_360, a.Ty_360, a.Ta_360>>

\* the stores the mode of a solve defines
EquipStores(eq, stilt) ==
    EquipCommon(eq) \o (IF stilt THEN EquipStiltOnly(eq) ELSE EquipPivotOnly(eq))
AnchorStores(a, stilt) ==
    AnchorCommon(a) \o (IF stilt THEN AnchorStiltOnly(a) ELSE <<>>)

AllKeys(stores, K) == \A i \in 1..Len(stores) : Keys(stores[i]) = K

\* no per-orientation store of the equipment or of an anchor has an entry
NothingStored(eq) ==
    /\ AllKeys(EquipCommon(eq) \o EquipPivotOnly(eq) \o EquipStiltOnly(eq), {})
    /\ \A i \in 1..Len(eq.anchor_list) :
          AllKeys(AnchorCommon(eq.anchor_list[i]) \o AnchorStiltOnly(eq.anchor_list[i]), {})

\* the base geometry: anchor base coordinates and the footprint vertices
BaseGeometry(eq) ==
    <<[i \in 1..Len(eq.anchor_list) |-> <<eq.anchor_list[i].xo, eq.anchor_list[i].yo>>],
      eq.bounding_points>>

SolveReturned == call.op = "solve" /\ pc = "idle" /\ raised = "none"
SolveAborted == call.op = "solve" /\ pc = "idle" /\ raised # "none"
InSweep == pc = "sweep"

-----------------------------------------------------------------------------
(* C1 *)

\* C1: when a solve(on_stilt=False) has returned, the stilt-only per-orientation
\* stores of the equipment (T_min, C_crit_anchor, Fh_x, Fh_y, Mw_x, Mw_y, Mot_x,
\* Mot_y, Mtotal_x, Mtotal_y) and of every anchor (cx_360, cy_360, Tx_360, Ty_360,
\* Ta_360) are empty, whatever solves came before.
C1_ModeExclusivity ==
    (SolveReturned /\ ~on_stilt) =>
        /\ AllKeys(EquipStiltOnly(self), {})
        /\ \A i \in 1..Len(self.anchor_list) :
              AllKeys(AnchorStiltOnly(self.anchor_list[i]), {})

-----------------------------------------------------------------------------
(* C2 *)

\* C2: a solve called on an Equipment without anchors ends in the program's own
\* explicit error (a RuntimeError it raises), not in a ZeroDivisionError; nothing
\* is stored for any orientation and is_solved stays False.
C2_ZeroAnchorPrecondition ==
    (call.op = "solve" /\ call.N0 = 0 /\ pc = "idle") =>
        /\ raised = "RuntimeError"
        /\ NothingStored(self)
        /\ ~self.is_solved

-----------------------------------------------------------------------------
(* C3 *)

\* C3: export_data, plot_anchor and plot_equipment called on an Equipment that was
\* never solved end in the explicit RuntimeError, raised before any other effect:
\* no figure is opened and no output folder is created.
C3_SolvedFlagGating ==
    (call.op \in {"export_data", "plot_anchor", "plot_equipment"} /\ ~self.is_solved) =>
        /\ raised = "RuntimeError"
        /\ ~figures
        /\ ~self.folder_created

-----------------------------------------------------------------------------
(* C4 *)

\* C4: with load_combo neither "LRFD" nor "ASD", no step of solve goes on to
\* the sweep or to stilt_mode_prep: every step of it either hands over to
\* calculate_fp or ends the call with an exception, stores nothing for any
\* orientation, leaves the base geometry and theta as they were, and leaves
\* is_solved as it was.
C4_UnrecognizedLoadCombo ==
    [][(pc # "idle" /\ self.load_combo \notin {"LRFD", "ASD"}) =>
          /\ pc \in {"calculate_cog", "calculate_fp"}
          /\ \/ pc' = "calculate_fp" /\ pc = "calculate_cog"
             \/ pc' = "idle" /\ raised' \in {"RuntimeError", "ZeroDivisionError"}
          /\ NothingStored(self')
          /\ BaseGeometry(self') = BaseGeometry(self)
          /\ self'.theta = self.theta
          /\ self'.is_solved = self.is_solved
          /\ deg_i' = 0]_vars

\* C4 witness: a solve on a model with anchors ended in calculate_fp's RuntimeError
C4_Witness ==
    /\ call.op = "solve" /\ pc = "idle" /\ raised = "RuntimeError"
    /\ self.load_combo = "XYZ"
    /\ self.N_anchor >= 1
    /\ self.bounding_points # <<>>

-----------------------------------------------------------------------------
(* C5 *)

\* C5: when a solve has returned (is_solved set), every per-orientation store its
\* mode defines, of the equipment and of every anchor, has an entry for each
\* sampled orientation and for no other key.
C5_ResultDensity ==
    SolveReturned =>
        /\ self.is_solved
        /\ AllKeys(EquipStores(self, on_stilt), SampledOrientations)
        /\ \A i \in 1..Len(self.anchor_list) :
              AllKeys(AnchorStores(self.anchor_list[i], on_stilt), SampledOrientations)

\* C5 witness: a stilt solve and a pivot solve have returned on a model of two anchors
C5_Witness ==
    /\ SolveReturned
    /\ self.N_anchor >= 2
    /\ n_calls = 2
    /\ ~on_stilt /\ self.theta # None

-----------------------------------------------------------------------------
(* C6 *)

\* C6: while a solve processes orientations the model is not marked solved, and a
\* solve that ended with an exception does not leave the model marked solved.
C6_SolveLifecycle ==
    /\ InSweep => ~self.is_solved
    /\ SolveAborted => ~self.is_solved

-----------------------------------------------------------------------------
(* C7 *)

RECURSIVE SweepFrom(_, _, _)
\* the loop of solve from position i on, as one function of the model
SweepFrom(eq, stilt, i) ==
    IF i > Len(degrees) THEN eq
    ELSE LET deg == degrees[i]
             v == before_tension(eq, stilt, deg)
             t == IF stilt THEN calculate_tension_stilt(v, deg) ELSE calculate_tension_pivot(v, deg)
         IN  SweepFrom(t, stilt, i + 1)

\* the stores of every anchor that the mode defines
AllAnchorStores(eq, stilt) ==
    [i \in 1..Len(eq.anchor_list) |-> AnchorStores(eq.anchor_list[i], stilt)]

\* the scalars in the state under which calculate_fp runs for the first time
WithoutScalars(eq) == [eq EXCEPT !.Fpgovern = None, !.Emh = None, !.weight_factor = None]

\* C7: when solve has returned on a model that was solved before, every store its
\* mode defines has exactly the sampled orientations as keys, every entry is the
\* value this sweep computes from the present base geometry and scalars (running
\* the sweep once more over the stored values changes none of them), and
\* Fpgovern, Emh and weight_factor are what calculate_fp gives on a model that
\* never held them.
C7_ReSolveIdempotence ==
    (SolveReturned /\ call.solved0) =>
        /\ AllKeys(EquipStores(self, on_stilt), SampledOrientations)
        /\ \A i \in 1..Len(self.anchor_list) :
              AllKeys(AnchorStores(self.anchor_list[i], on_stilt), SampledOrientations)
        /\ LET again == SweepFrom(self, on_stilt, 1)
           IN  /\ EquipStores(again, on_stilt) = EquipStores(self, on_stilt)
               /\ AllAnchorStores(again, on_stilt) = AllAnchorStores(self, on_stilt)
        /\ self.Fpgovern = calculate_fp(WithoutScalars(self)).Fpgovern
        /\ self.Emh = calculate_fp(WithoutScalars(self)).Emh
        /\ self.weight_factor = calculate_fp(WithoutScalars(self)).weight_factor

\* C7 witness: on an ASD model (Fpgovern carries the factor 0.7) of two anchors,
\* a solve has returned that was called right after a solve of the same mode
\* had returned
C7_Witness ==
    /\ SolveReturned /\ call.solved0
    /\ call.follows_solve /\ call.stilt0 = on_stilt
    /\ self.load_combo = "ASD"
    /\ self.N_anchor >= 2

-----------------------------------------------------------------------------
(* C8 *)

\* tag i at position i of anchor_list (counting from 0), and N_anchor counts the list
TagsInOrder(eq) ==
    /\ eq.N_anchor = Len(eq.anchor_list)
    /\ \A i \in 1..Len(eq.anchor_list) : eq.anchor_list[i].tag = i - 1

\* C8: the k-th anchor added (k from 0) has tag k, N_anchor is the number of
\* anchors added, and no step removes an anchor or changes the tag of one.
C8_TagAssignment ==
    [][/\ TagsInOrder(self)
       /\ TagsInOrder(self')
       /\ Len(self'.anchor_list) >= Len(self.anchor_list)
       /\ \A i \in 1..Len(self.anchor_list) :
             self'.anchor_list[i].tag = self.anchor_list[i].tag]_vars

\* C8 witness: an anchor was added, after a solve, to a model that had one
C8_Witness ==
    /\ call.op = "add_anchor" /\ call.N0 >= 1 /\ call.solved0
    /\ Len(self.anchor_list) = call.N0 + 1
    /\ pc = "idle"

-----------------------------------------------------------------------------
(* C9, C10: add_anchor_group *)

\* the arguments of the add_anchor_group call
GroupStep(n, span) == IF n = 1 THEN Zero ELSE Div(span, I(n - 1))
GroupX(i) == Add(call.args[1], Mul(I(i), GroupStep(call.args[5], call.args[3])))
GroupY(j) == Add(call.args[2], Mul(I(j), GroupStep(call.args[6], call.args[4])))

\* the nx-by-ny grid, x-major
GroupGrid ==
    [k \in 1..(call.args[5] * call.args[6]) |->
        <<GroupX((k - 1) \div call.args[6]), GroupY((k - 1) % call.args[6])>>]

\* the anchors the call appended, as coordinates
Appended ==
    [k \in 1..(Len(self.anchor_list) - call.N0) |->
        <<self.anchor_list[call.N0 + k].xo, self.anchor_list[call.N0 + k].yo>>]

\* C9: add_anchor_group in mode "f" appends exactly nx*ny anchors, x-major: the
\* anchor of column i and row j is at (x0 + i*sx, y0 + j*sy) with tag
\* N0 + i*ny + j, where N0 is N_anchor before the call and sx is 0 for nx == 1
\* and b/(nx-1) otherwise (sy alike).
C9_FullGrid ==
    (call.op = "add_anchor_group" /\ call.args[7] = "f") =>
        /\ Len(self.anchor_list) = call.N0 + call.args[5] * call.args[6]
        /\ Appended = GroupGrid
        /\ \A k \in 1..Len(Appended) : self.anchor_list[call.N0 + k].tag = call.N0 + k - 1

\* a grid point on the least or greatest grid x or the least or greatest grid y
OnGridEdge(e) ==
    \/ \A k \in 1..Len(GroupGrid) : Le(e[1], GroupGrid[k][1])
    \/ \A k \in 1..Len(GroupGrid) : Le(GroupGrid[k][1], e[1])
    \/ \A k \in 1..Len(GroupGrid) : Le(e[2], GroupGrid[k][2])
    \/ \A k \in 1..Len(GroupGrid) : Le(GroupGrid[k][2], e[2])

PerimeterCount(nx, ny) ==
    nx * ny - (IF nx > 2 THEN nx - 2 ELSE 0) * (IF ny > 2 THEN ny - 2 ELSE 0)

\* the grid has nx distinct columns and ny distinct rows
SpansApart ==
    /\ call.args[5] = 1 \/ call.args[3] # Zero
    /\ call.args[6] = 1 \/ call.args[4] # Zero

-----------------------------------------------------------------------------
(* C11: add_footprint *)

\* the corners of the rectangle add_footprint(xo, yo, b, h) is called with,
\* counter-clockwise from (xo, yo)
FootprintCorners(a) ==
    << <<a[1], a[2]>>, <<Add(a[1], a[3]), a[2]>>,
       <<Add(a[1], a[3]), Add(a[2], a[4])>>, <<a[1], Add(a[2], a[4])>> >>

\* vertices 4k+1..4k+4 of the polygon (counted from 1)
Quad(pts, k) == SubSeq(pts, 4 * k + 1, 4 * k + 4)

\* C11: a call of add_footprint(xo, yo, b, h) leaves the vertices that were there
\* where they are, puts (xo, yo), (xo+b, yo), (xo+b, yo+h), (xo, yo+h) in this order
\* behind them and changes no anchor; every other builder call leaves the polygon
\* alone; so the polygon always consists of whole groups of four vertices, each
\* the corners of one rectangle that was added.
C11_FootprintAppend ==
    [][/\ call'.op = "add_footprint" =>
             /\ self'.bounding_points = self.bounding_points \o FootprintCorners(call'.args)
             /\ self'.anchor_list = self.anchor_list
             /\ self'.N_anchor = self.N_anchor
       /\ call'.op # "add_footprint" => self'.bounding_points = self.bounding_points
       /\ Len(self'.bounding_points) % 4 = 0
       /\ \A k \in 0..(Len(self'.bounding_points) \div 4 - 1) :
             \E a \in FootprintPieces : Quad(self'.bounding_points, k) = FootprintCorners(a)]_vars

\* C11 witness: the second rectangle was added to a model that has the first one
\* and an anchor
C11_Witness ==
    /\ call.op = "add_footprint" /\ call.N0 >= 1
    /\ Len(self.bounding_points) = 8
    /\ Quad(self.bounding_points, 0) = FootprintCorners(<<I(0), I(0), I(2), I(4)>>)
    /\ Quad(self.bounding_points, 1) = FootprintCorners(<<I(2), I(2), I(2), I(2)>>)

-----------------------------------------------------------------------------
(* C12: the default mass center *)

\* the model was constructed without CG
NoOverride(eq) == \E cfg \in Configs : cfg.CG = None /\ cfg.load_combo = eq.load_combo

\* C12: when a solve has returned on a model constructed without CG, whatever
\* builder calls and solves came before, the mass center is the centroid of the
\* anchors the model has, and ecc_x, ecc_y and torsion are zero at every orientation.
C12_DefaultMassCenter ==
    (SolveReturned /\ NoOverride(self)) =>
        /\ self.equip_cog = self.anchor_cog
        /\ \A d \in SampledOrientations :
              self.ecc_x[d] = Zero /\ self.ecc_y[d] = Zero /\ self.torsion[d] = Zero

-----------------------------------------------------------------------------
(* C14: the dead load in stilt mode *)

\* the values an anchor store holds at orientation d, one per anchor
Across(eq, store(_), d) == [i \in 1..Len(eq.anchor_list) |-> store(eq.anchor_list[i])[d]]

Ta_360_of(a) == a.Ta_360

\* C14: when a solve(on_stilt=True) has returned, at every orientation d the
\* Ta_360[d] of all anchors add up to W = -(weight_factor * weight), Fv[d] is W,
\* and Ta_360[d] is one and the same value for every anchor and every orientation.
C14_StiltDeadLoad ==
    (SolveReturned /\ on_stilt) =>
        \A d \in SampledOrientations :
            /\ SumSeq(Across(self, Ta_360_of, d)) = Neg(Mul(self.weight_factor, self.weight))
            /\ self.Fv[d] = Neg(Mul(self.weight_factor, self.weight))
            /\ \A i \in 1..Len(self.anchor_list) :
                  self.anchor_list[i].Ta_360[d] = self.anchor_list[1].Ta_360[0]

\* C14 witness: a stilt-mode solve has returned on two anchors under a dead load
\* that is not zero
C14_Witness ==
    /\ SolveReturned /\ on_stilt
    /\ Len(self.anchor_list) = 2
    /\ self.Fv[90] # Zero
    /\ self.anchor_list[2].Ta_360[270] = Div(self.Fv[90], I(2))

-----------------------------------------------------------------------------
(* C13: statics of the pivot mode *)

\* the moment the anchor tensions of orientation d have about the pivot line
TensionMoment(eq, d) ==
    SumSeq([i \in 1..Len(eq.anchor_list) |->
               Mul(eq.anchor_list[i].Ttotal_360[d], eq.anchor_list[i].d_360[d])])

\* C13: when a solve(on_stilt=False) has returned on a model with an anchor, at
\* every orientation d the products Ttotal_360[d] * d_360[d] of all anchors add
\* up to M_net[d], also where no anchor lies below the pivot line and where
\* M_net[d] is zero.
C13_PivotStatics ==
    (SolveReturned /\ ~on_stilt /\ Len(self.anchor_list) >= 1) =>
        \A d \in SampledOrientations : TensionMoment(self, d) = self.M_net[d]

-----------------------------------------------------------------------------
(* C18: the envelopes and the critical anchors *)

Vtotal_360_of(a) == a.Vtotal_360
Ttotal_360_of(a) == a.Ttotal_360
d_360_of(a) == a.d_360

\* best is the largest of vals, and crit is the tag of an item that has it
IsMaxAt(vals, best, crit) ==
    /\ \A i \in 1..Len(vals) : Le(vals[i], best)
    /\ crit # None
    /\ \E i \in 1..Len(vals) : crit = Some(i - 1) /\ vals[i] = best

\* best is the smallest of vals, and crit is the tag of an item that has it
IsMinAt(vals, best, crit) ==
    /\ \A i \in 1..Len(vals) : Le(best, vals[i])
    /\ crit # None
    /\ \E i \in 1..Len(vals) : crit = Some(i - 1) /\ vals[i] = best

\* C18: when a solve has returned on a model with an anchor, at every orientation
\* d: V_max[d] is the largest Vtotal_360[d] and V_crit_anchor[d] the tag of an
\* anchor that has it; T_max[d] is the largest Ttotal_360[d] and T_crit_anchor[d]
\* the tag of an anchor that has it (in pivot mode the anchor whose lever arm is
\* d_max[d]); in stilt mode T_min[d] is the smallest Ttotal_360[d],
\* C_crit_anchor[d] the tag of an anchor that has it, and T_min[d] <= T_max[d];
\* none of these tags is None.
C18_Envelopes ==
    (SolveReturned /\ Len(self.anchor_list) >= 1) =>
        \A d \in SampledOrientations :
            /\ IsMaxAt(Across(self, Vtotal_360_of, d), self.V_max[d], self.V_crit_anchor[d])
            /\ IsMaxAt(Across(self, Ttotal_360_of, d), self.T_max[d], self.T_crit_anchor[d])
            /\ ~on_stilt =>
                  IsMaxAt(Across(self, d_360_of, d), self.d_max[d], self.T_crit_anchor[d])
            /\ on_stilt =>
                  /\ IsMinAt(Across(self, Ttotal_360_of, d), self.T_min[d], self.C_crit_anchor[d])
                  /\ Le(self.T_min[d], self.T_max[d])

-----------------------------------------------------------------------------
(* C19: the sign of the pivot-mode tension *)

\* C19: when a solve(on_stilt=False) has returned, at every orientation d: y_max[d]
\* is the largest y of the rotated footprint vertices; every lever arm d_360[d] is
\* max(y_max[d] - y_360[d], 0) and so not negative; an anchor on or above the pivot
\* line has Ttotal_360[d] = 0; no Ttotal_360[d] is negative; and where M_r[d] >=
\* M_ot[d], M_net[d], every Ttotal_360[d] and T_max[d] are 0.
C19_PivotTensionSign ==
    (SolveReturned /\ ~on_stilt) =>
        \A d \in SampledOrientations :
            LET pts == self.bounding_points_dict[d]
                y == self.y_max[d]
            IN  /\ \A k \in 1..Len(pts) : Le(pts[k][2], y)
                /\ Len(pts) >= 1 => \E k \in 1..Len(pts) : pts[k][2] = y
                /\ \A i \in 1..Len(self.anchor_list) :
                      LET a == self.anchor_list[i] IN
                      /\ a.d_360[d] = PyMax(Sub(y, a.y_360[d]), Zero)
                      /\ Le(Zero, a.d_360[d])
                      /\ Le(y, a.y_360[d]) => a.Ttotal_360[d] = Zero
                      /\ Le(Zero, a.Ttotal_360[d])
                      /\ Le(self.M_ot[d], self.M_r[d]) =>
                            /\ self.M_net[d] = Zero
                            /\ a.Ttotal_360[d] = Zero
                            /\ self.T_max[d] = Zero

-----------------------------------------------------------------------------
(* C20: the orientations of a sweep do not depend on each other *)

RECURSIVE SweepRaises(_, _, _)
\* the loop of solve from position i on raises
SweepRaises(eq, stilt, i) ==
    IF i > Len(degrees) THEN FALSE
    ELSE \/ orientation_raises(eq, stilt, degrees[i])
         \/ SweepRaises(orientation(eq, stilt, degrees[i]), stilt, i + 1)

\* what the stores of the mode hold for orientation d
Slot(eq, stilt, d) ==
    <<[k \in 1..Len(EquipStores(eq, stilt)) |-> EquipStores(eq, stilt)[k][d]],
      [i \in 1..Len(eq.anchor_list) |->
          [k \in 1..Len(AnchorStores(eq.anchor_list[i], stilt)) |->
              AnchorStores(eq.anchor_list[i], stilt)[k][d]]]>>

\* solve is about to enter its loop
BeforeSweep == pc = "sweep" /\ deg_i = 1

\* C20: from the state in which solve enters its loop, the loop body for any
\* orientation d can be run first: it finds every entry it reads, and what it
\* stores for d is what the loop, run in the order of the list, stores for d.
C20_OrientationIndependence ==
    BeforeSweep =>
        \A d \in SampledOrientations :
            /\ ~orientation_key_error(self, on_stilt, d)
            /\ ~SweepRaises(self, on_stilt, 1) =>
                  Slot(orientation(self, on_stilt, d), on_stilt, d)
                      = Slot(SweepFrom(self, on_stilt, 1), on_stilt, d)

-----------------------------------------------------------------------------
(* C15: orientation 0 and orientation 360 *)

\* C15: when a solve has returned, in either mode, every store of the equipment
\* and of every anchor that the mode defines holds for orientation 360 the value
\* it holds for orientation 0: rotated positions, lever arms, shears, tensions,
\* inertias, centroids, footprint vertices, torsion, moments, T_max, V_max and
\* the tags of the critical anchors.
C15_Periodicity ==
    SolveReturned => Slot(self, on_stilt, 0) = Slot(self, on_stilt, 360)

-----------------------------------------------------------------------------
(* C17: the symmetric layout in pivot mode *)

\* the model holds the square footprint and the 2x2 group of the scene, and nothing else
IsSymmetricScene(eq) ==
    /\ eq.bounding_points = FootprintCorners(SceneFootprint)
    /\ [i \in 1..Len(eq.anchor_list) |-> <<eq.anchor_list[i].xo, eq.anchor_list[i].yo>>]
          = << <<I(1), I(1)>>, <<I(1), I(15)>>, <<I(15), I(1)>>, <<I(15), I(15)>> >>

\* the anchors whose tension at orientation d is T_max[d]
AtMaxTension(eq, d) ==
    {i \in 1..Len(eq.anchor_list) : eq.anchor_list[i].Ttotal_360[d] = eq.T_max[d]}

-----------------------------------------------------------------------------
(* C16: aligning an aligned layout *)

\* the running solve was called right after a stilt-mode solve had returned: its
\* stilt_mode_prep finds the layout that solve's stilt_mode_prep has aligned
AlignedBefore == call.op = "solve" /\ call.follows_solve /\ call.stilt0

\* C16: stilt_mode_prep, run on a layout that the stilt_mode_prep of the solve
\* before has aligned, returns theta = 0 and leaves the base coordinates of every
\* anchor, both centroids and every footprint vertex as they are; so the two
\* solves use the same base geometry.
C16_AlignmentIdempotence ==
    [][(pc = "stilt_mode_prep" /\ AlignedBefore) =>
           /\ self'.theta = NoRot
           /\ BaseGeometry(self') = BaseGeometry(self)
           /\ self'.equip_cog = self.equip_cog
           /\ self'.anchor_cog = self.anchor_cog]_vars

-----------------------------------------------------------------------------
(* C21: the loop body for d writes the entries of d only *)

\* every per-orientation store of the equipment and of an anchor, of either mode
AllEquipStores(eq) == EquipCommon(eq) \o EquipPivotOnly(eq) \o EquipStiltOnly(eq)
AllStoresOf(a) == AnchorCommon(a) \o AnchorStiltOnly(a)

\* what the store s holds for the orientations other than d
Others(s, d) == [k \in Keys(s) \ {d} |-> s[k]]

\* the attributes __init__ takes from its arguments and the ones calculate_fp assigns
SeismicScalars(eq) ==
    <<eq.Sds, eq.Ip, eq.h, eq.z, eq.ap, eq.Rp, eq.omega, eq.weight, eq.CGz,
      eq.load_combo, eq.use_omega, eq.Fpgovern, eq.Emh, eq.weight_factor>>

\* C21: a pass of the loop of solve for orientation d (update_geometry,
\* calculate_I, the shear step and the tension step, also a pass that ends in an
\* exception) changes, adds and removes no entry keyed by another orientation in
\* any per-orientation store of the equipment or of an anchor, and leaves the
\* base coordinates of the anchors, the footprint vertices, both centroids,
\* N_anchor, the anchor count and the seismic scalars as they are.
C21_DisjointSlots ==
    [][pc = "sweep" =>
          LET d == degrees[deg_i] IN
          /\ \A k \in 1..Len(AllEquipStores(self)) :
                Others(AllEquipStores(self')[k], d) = Others(AllEquipStores(self)[k], d)
          /\ Len(self'.anchor_list) = Len(self.anchor_list)
          /\ \A i \in 1..Len(self.anchor_list) :
                \A k \in 1..Len(AllStoresOf(self.anchor_list[i])) :
                    Others(AllStoresOf(self'.anchor_list[i])[k], d)
                        = Others(AllStoresOf(self.anchor_list[i])[k], d)
          /\ BaseGeometry(self') = BaseGeometry(self)
          /\ self'.equip_cog = self.equip_cog
          /\ self'.anchor_cog = self.anchor_cog
          /\ self'.N_anchor = self.N_anchor
          /\ SeismicScalars(self') = SeismicScalars(self)]_vars

\* C21 witness: the second solve of a model of two or more anchors has processed
\* orientation 90 over the entries the first solve stored, those of 0, 180, 270
\* and 360 among them
C21_Witness ==
    /\ pc = "sweep" /\ deg_i = 3 /\ n_calls = 2
    /\ self.N_anchor >= 2
    /\ Keys(self.Ix) = SampledOrientations
    /\ Keys(self.anchor_list[2].Ttotal_360) = SampledOrientations
    /\ self.Ix[90] # self.Ix[0]

-----------------------------------------------------------------------------
(* C22: the order of the sweep *)

\* the orientation the loop of solve is at
AtDeg == degrees[deg_i]

\* the snapshot of orientation d is the rotation by d of the base geometry the
\* model has
SnapshotIsCurrent(eq, d) ==
    /\ HasAll(<<eq.equip_cog_dict, eq.anchor_cog_dict, eq.bounding_points_dict>>, {d})
    /\ eq.anchor_cog_dict[d] = transform_rotate(eq.anchor_cog, Rot(d))
    /\ eq.equip_cog_dict[d] = transform_rotate(eq.equip_cog, Rot(d))
    /\ eq.bounding_points_dict[d]
          = [k \in 1..Len(eq.bounding_points) |-> transform_rotate(eq.bounding_points[k], Rot(d))]
    /\ \A i \in 1..Len(eq.anchor_list) :
          LET a == eq.anchor_list[i] IN
          /\ HasAll(<<a.x_360, a.y_360>>, {d})
          /\ <<a.x_360[d], a.y_360[d]>> = transform_rotate(<<a.xo, a.yo>>, Rot(d))

\* the inertias of orientation d are those of the snapshot of d
InertiasAreCurrent(eq, d) ==
    /\ HasAll(<<eq.Ix, eq.Iy, eq.Ixy, eq.Iz>>, {d})
    /\ <<eq.Ix[d], eq.Iy[d], eq.Ixy[d], eq.Iz[d]>>
          = <<calculate_I(eq, d).Ix[d], calculate_I(eq, d).Iy[d],
              calculate_I(eq, d).Ixy[d], calculate_I(eq, d).Iz[d]>>

\* C22: the sweep of solve is the list 0, 1, ..., 360 (361 orientations; the
\* sampled sweep is the ascending list of the sampled orientations, from 0 to
\* 360).  The loop starts at the first orientation; for each orientation it calls
\* update_geometry, calculate_I, the shear step and the tension step in this
\* order, with nothing in between; only after the tension step does it go on, to
\* the next orientation of the list or, after the last, to the end of solve, so
\* a solve that returns has processed every orientation once.  When the shear
\* step and the tension step of an orientation run, the snapshot of that
\* orientation is the rotation of the present base geometry and the inertias
\* are those of that snapshot; no call of the loop misses an entry it reads.
C22_SweepOrder ==
    [][/\ linspace(0, 360, 360 \div 1 + 1) = [i \in 1..361 |-> i - 1]
       /\ degrees[1] = 0 /\ degrees[Len(degrees)] = 360
       /\ \A i \in 1..(Len(degrees) - 1) : degrees[i] < degrees[i + 1]
       /\ {degrees[i] : i \in 1..Len(degrees)} = SampledOrientations
       /\ (pc \in {"calculate_fp", "stilt_mode_prep"} /\ pc' # "idle") =>
             \/ pc' = "stilt_mode_prep" /\ deg_i' = 0
             \/ pc' = "sweep" /\ deg_i' = 1
       /\ pc = "sweep" =>
             /\ pc' = "calculate_I" /\ deg_i' = deg_i
             /\ SnapshotIsCurrent(self', AtDeg)
       /\ pc = "calculate_I" =>
             /\ pc' = "calculate_shear" /\ deg_i' = deg_i
             /\ SnapshotIsCurrent(self', AtDeg) /\ InertiasAreCurrent(self', AtDeg)
       /\ pc = "calculate_shear" =>
             /\ SnapshotIsCurrent(self, AtDeg) /\ InertiasAreCurrent(self, AtDeg)
             /\ pc' = "calculate_tension" /\ deg_i' = deg_i
       /\ pc = "calculate_tension" =>
             /\ SnapshotIsCurrent(self, AtDeg) /\ InertiasAreCurrent(self, AtDeg)
             /\ \/ pc' = "sweep" /\ deg_i < Len(degrees) /\ deg_i' = deg_i + 1
                \/ pc' = "finish" /\ deg_i = Len(degrees)
                \/ pc' = "idle" /\ raised' = "ZeroDivisionError" /\ ~on_stilt
       /\ pc = "finish" => deg_i = Len(degrees) /\ pc' = "idle" /\ raised' = "none"
       /\ raised' # "KeyError"]_vars

\* C22 witness: a stilt-mode solve, which has turned the base geometry, is at the
\* tension step of the last orientation on a model that a pivot-mode solve has
\* filled with the snapshots of the geometry before the turn
C22_Witness ==
    /\ pc = "calculate_tension" /\ deg_i = Len(degrees)
    /\ on_stilt /\ call.solved0 /\ ~call.stilt0
    /\ self.theta # None /\ self.theta # NoRot
    /\ self.N_anchor >= 2

-----------------------------------------------------------------------------
(* C23: one mode per solve *)

\* the argument on_stilt of the solve in progress or last made
ModeArgument == call.args[1]

\* C23: from the call of solve to its end the mode in use is the argument
\* on_stilt of the call; the shear step and the tension step of every orientation
\* are the variants of that mode (calculate_shear_stilt and
\* calculate_tension_stilt for True, calculate_shear_pivot and
\* calculate_tension_pivot for False); and the end of solve stores that mode in
\* self.on_stilt, where the mode-only stores of that mode hold an entry for
\* every orientation.
C23_SingleMode ==
    [][pc # "idle" =>
          /\ call.op = "solve" /\ call' = call
          /\ on_stilt = ModeArgument /\ on_stilt' = on_stilt
          /\ (pc = "calculate_shear" /\ pc' # "idle") =>
                self' = IF ModeArgument THEN calculate_shear_stilt(self, AtDeg)
                        ELSE calculate_shear_pivot(self, AtDeg)
          /\ (pc = "calculate_tension" /\ pc' # "idle") =>
                self' = IF ModeArgument THEN calculate_tension_stilt(self, AtDeg)
                        ELSE calculate_tension_pivot(self, AtDeg)
          /\ pc = "finish" =>
                /\ self'.on_stilt = ModeArgument
                /\ self'.is_solved
                /\ AllKeys(IF ModeArgument THEN EquipStiltOnly(self') ELSE EquipPivotOnly(self'),
                           SampledOrientations)]_vars

\* C23 witness: a stilt-mode solve has returned on a model whose solve before
\* was in pivot mode, and its shear step differs from the pivot one: at
\* orientation 90 the force has an x component
C23_Witness ==
    /\ SolveReturned /\ call.solved0 /\ ~call.stilt0
    /\ ModeArgument /\ self.on_stilt
    /\ self.N_anchor >= 2
    /\ self.Fh_x[90] # Zero

-----------------------------------------------------------------------------
(* C24: the sweep leaves the base geometry alone *)

\* the base geometry with both base centroids
BaseWithCentroids(eq) == <<BaseGeometry(eq), eq.equip_cog, eq.anchor_cog>>

\* C24: from the first pass of the loop of solve to the return of solve no step
\* changes the base coordinates of an anchor, a vertex of bounding_points,
\* equip_cog or anchor_cog; the pass for orientation d leaves, as the snapshot of
\* d (x_360, y_360, equip_cog_dict, anchor_cog_dict, bounding_points_dict), the
\* rotation by d of that base geometry; and when solve returns, the snapshot of
\* every orientation is the rotation by that orientation of the one base
\* geometry the model has.
C24_SweepKeepsBase ==
    [][(pc = "sweep" \/ pc = "finish") =>
          /\ BaseWithCentroids(self') = BaseWithCentroids(self)
          /\ pc = "sweep" => SnapshotIsCurrent(self', AtDeg)
          /\ pc = "finish" =>
                (\A d \in SampledOrientations : SnapshotIsCurrent(self', d))]_vars

\* C24 witness: a stilt-mode solve has returned on two anchors and a footprint
\* that its alignment had turned, after a solve that had stored the snapshots
\* of the geometry before the turn
C24_Witness ==
    /\ SolveReturned /\ on_stilt /\ call.solved0
    /\ self.theta # None /\ self.theta # NoRot
    /\ self.N_anchor = 2 /\ Len(self.bounding_points) = 4
    /\ \A d \in SampledOrientations : SnapshotIsCurrent(self, d)
    /\ self.anchor_list[2].x_360[180] # self.anchor_list[2].xo

-----------------------------------------------------------------------------
(* C25: the alignment comes before the sweep, in stilt mode only *)

\* the base geometry and the centroids of after are those of before, each point
\* turned by the angle rot
TurnedBy(before, after, rot) ==
    /\ Len(after.anchor_list) = Len(before.anchor_list)
    /\ \A i \in 1..Len(before.anchor_list) :
          <<after.anchor_list[i].xo, after.anchor_list[i].yo>>
              = transform_rotate(<<before.anchor_list[i].xo, before.anchor_list[i].yo>>, rot)
    /\ after.equip_cog = transform_rotate(before.equip_cog, rot)
    /\ after.anchor_cog = transform_rotate(before.anchor_cog, rot)
    /\ Len(after.bounding_points) = Len(before.bounding_points)
    /\ \A k \in 1..Len(before.bounding_points) :
          after.bounding_points[k] = transform_rotate(before.bounding_points[k], rot)

\* calculate_cog and calculate_fp have run on the layout the model has
CentroidAndForceDone(eq) ==
    /\ eq.anchor_cog = calculate_cog(eq).anchor_cog
    /\ eq.equip_cog # None
    /\ <<eq.Fpgovern, eq.Emh, eq.weight_factor>>
          = <<calculate_fp(eq).Fpgovern, calculate_fp(eq).Emh, calculate_fp(eq).weight_factor>>

\* C25: within a solve, stilt_mode_prep is reached only from calculate_fp and
\* only in a solve(on_stilt=True), so at most once in a solve; it runs when
\* calculate_cog and calculate_fp have run and no orientation has been
\* processed, and the first orientation follows it; it turns every anchor's base
\* coordinates, equip_cog, anchor_cog and every vertex of bounding_points by one
\* angle, the theta that solve stores; no other step of a solve changes the base
\* coordinates of an anchor or bounding_points, and a solve(on_stilt=False)
\* changes them at no step.
C25_AlignmentBeforeSweep ==
    [][pc # "idle" =>
          /\ pc' = "calculate_fp" => pc = "calculate_cog"
          /\ pc' = "stilt_mode_prep" => (pc = "calculate_fp" /\ on_stilt /\ ModeArgument)
          /\ (pc = "calculate_fp" /\ pc' # "idle") =>
                pc' = (IF ModeArgument THEN "stilt_mode_prep" ELSE "sweep")
          /\ pc = "stilt_mode_prep" =>
                /\ CentroidAndForceDone(self)
                /\ deg_i = 0
                /\ pc' = "sweep" /\ deg_i' = 1
                /\ self'.theta # None
                /\ TurnedBy(self, self', self'.theta)
          /\ pc # "stilt_mode_prep" =>
                (BaseGeometry(self') = BaseGeometry(self) /\ self'.theta = self.theta)
          /\ ~ModeArgument => BaseGeometry(self') = BaseGeometry(self)]_vars

\* C25 witness: the alignment of a stilt-mode solve has turned two anchors, the
\* centroids and the four footprint vertices by an angle that is not zero, and
\* the sweep is about to start
C25_Witness ==
    /\ pc = "sweep" /\ deg_i = 1 /\ on_stilt
    /\ self.theta # None /\ self.theta # NoRot
    /\ self.N_anchor = 2 /\ Len(self.bounding_points) = 4
    /\ self.bounding_points[3] = transform_rotate(<<I(16), I(16)>>, self.theta)
    /\ self.anchor_list[2].yo = Zero

-----------------------------------------------------------------------------
(* C26: a solve does not depend on the solves before it *)

\* rot turned back: the angle -theta for the angle theta
TurnBack(rot) == <<rot[1], Neg(rot[2])>>

\* the model as the caller built it, before any solve: the constructor arguments,
\* the footprint vertices and the anchors of eq, each point where it was before
\* the one stilt_mode_prep that has run turned it by eq.theta
AsBuilt(eq, cfg) ==
    LET back(pt) == transform_rotate(pt, TurnBack(eq.theta))
        anchor(i) == LET xy == back(<<eq.anchor_list[i].xo, eq.anchor_list[i].yo>>)
                     IN  Anchor(eq.anchor_list[i].tag, xy[1], xy[2])
    IN  [Equipment(cfg) EXCEPT
            !.bounding_points = [k \in 1..Len(eq.bounding_points) |-> back(eq.bounding_points[k])],
            !.anchor_list = [i \in 1..Len(eq.anchor_list) |-> anchor(i)],
            !.N_anchor = eq.N_anchor]

\* solve(on_stilt=False) on a model that was never solved, when it returns
FirstPivotSolve(eq) == SweepFrom(calculate_fp(calculate_cog(eq)), FALSE, 1)

\* the second solve of the model is a pivot-mode solve that has returned, and the
\* first was a stilt-mode solve called when the layout was complete
PivotAfterStilt ==
    /\ SolveReturned /\ ~on_stilt
    /\ n_calls = 2 /\ call.follows_solve /\ call.stilt0
    /\ self.theta # None

\* C26: when a solve(on_stilt=False) has returned that was called right after a
\* solve(on_stilt=True) of the same model, every store of the pivot mode holds,
\* at every orientation, what a solve(on_stilt=False) stores on a new model
\* with the same constructor arguments, footprint and anchors: the same rotated
\* positions, centroids, lever arms, tensions, shears and critical anchors.
C26_HistoryIndependence ==
    PivotAfterStilt =>
        \A d \in SampledOrientations :
            Slot(self, FALSE, d) = Slot(FirstPivotSolve(AsBuilt(self, SceneConfig)), FALSE, d)

-----------------------------------------------------------------------------
(* C27: the alignment reaches the principal axes *)

\* C27: when a solve(on_stilt=True) has returned, the product moment of inertia
\* of the anchor base coordinates about anchor_cog is zero and Ixy[0] is zero,
\* whatever the layout: also a layout with Ix == Iy and Ixy # 0.
C27_PrincipalAxes ==
    (SolveReturned /\ on_stilt) =>
        /\ base_inertia(self).Ixy = Zero
        /\ self.Ixy[0] = Zero

-----------------------------------------------------------------------------
(* C28: a model marked solved is complete *)

\* the position, shear and tension series of an anchor
AnchorSeries(a) == <<a.x_360, a.y_360, a.vd_360, a.vt_360, a.Vtotal_360, a.Ttotal_360>>

\* C28: in every state where is_solved is true and no call is running, every
\* anchor of anchor_list has an entry for every orientation in its position,
\* shear and tension series, and the per-orientation stores of the equipment are
\* those of the anchors and the footprint the model has: anchor_cog is their
\* centroid and every snapshot of the footprint has the vertices of
\* bounding_points.  So after add_anchor, add_anchor_group or add_footprint on a
\* solved model is_solved is not true.
C28_SolvedImpliesComplete ==
    (pc = "idle" /\ self.is_solved) =>
        /\ \A i \in 1..Len(self.anchor_list) :
              AllKeys(AnchorSeries(self.anchor_list[i]), SampledOrientations)
        /\ self.anchor_cog = calculate_cog(self).anchor_cog
        /\ \A d \in SampledOrientations :
              Len(self.bounding_points_dict[d]) = Len(self.bounding_points)

-----------------------------------------------------------------------------
(* C29: horizontal equilibrium of the shear model *)

\* the sum of the vectors an anchor store holds at orientation d
VectorSum(eq, store(_), d) ==
    <<SumSeq([i \in 1..Len(eq.anchor_list) |-> store(eq.anchor_list[i])[d][1]]),
      SumSeq([i \in 1..Len(eq.anchor_list) |-> store(eq.anchor_list[i])[d][2]])>>

vd_360_of(a) == a.vd_360
vt_360_of(a) == a.vt_360

\* the horizontal force applied at orientation d: along +y in pivot mode, turned
\* with the orientation in stilt mode
AppliedForce(eq, stilt, d) ==
    IF stilt THEN <<eq.Fh_x[d], eq.Fh_y[d]>> ELSE <<Zero, eq.Fh[d]>>

\* C29: when a solve has returned, in either mode, on a model with an anchor
\* (also a single anchor, or anchors that coincide, where Iz is 0), at every
\* orientation d: the direct shear vd_360[d] of every anchor is -F/N_anchor for
\* the applied horizontal force F; the torsional shears vt_360[d] of all anchors
\* add up to zero; the direct and torsional shears of all anchors add up to -F;
\* and the total shear of a single anchor is Fh (Vtotal_360 holds its square).
C29_ShearEquilibrium ==
    (SolveReturned /\ self.N_anchor >= 1) =>
        \A d \in SampledOrientations :
            LET F == AppliedForce(self, on_stilt, d)
                direct == VectorSum(self, vd_360_of, d)
                torsional == VectorSum(self, vt_360_of, d)
            IN  /\ \A i \in 1..Len(self.anchor_list) :
                      self.anchor_list[i].vd_360[d]
                          = <<Div(Neg(F[1]), I(self.N_anchor)), Div(Neg(F[2]), I(self.N_anchor))>>
                /\ torsional = <<Zero, Zero>>
                /\ <<Add(direct[1], torsional[1]), Add(direct[2], torsional[2])>>
                      = <<Neg(F[1]), Neg(F[2])>>
                /\ self.N_anchor = 1 => self.anchor_list[1].Vtotal_360[d] = Sq(self.Fh[d])

=============================================================================
